---- MODULE Spec2Model ----
(* Verification model of nuro: the provider resolver (resolver/resolver.go,
   env.go) and the three streaming decoders (provider/ollama.go and the
   OpenAI provider).  Go strings are sequences of one-character strings, so
   that prefix tests, case folding and ordering are computed, not assumed. *)
EXTENDS Integers, Sequences, FiniteSets, TLC

(***************************************************************************)
(* Strings                                                                 *)
(***************************************************************************)
\* The characters used by the model, in ascending byte order.
AsciiOrder ==
  <<" ","$","-",".","/","0","1","2","3","4","5","6","7","8","9",":","A",
    "B","C","D","E","F","G","H","I","J","K","L","M","N","O","P","Q",
    "R","S","T","U","V","W","X","Y","Z","[","]","_","a","b","c","d",
    "e","f","g","h","i","j","k","l","m","n","o","p","q","r","s","t",
    "u","v","w","x","y","z">>

UpperChars ==
  <<"A","B","C","D","E","F","G","H","I","J","K","L","M","N","O","P","Q","R","S","T","U","V","W","X","Y","Z">>

LowerChars ==
  <<"a","b","c","d","e","f","g","h","i","j","k","l","m","n","o","p","q","r","s","t","u","v","w","x","y","z">>

\* Environment variable names.
NURO_API_KEY == <<"N","U","R","O","_","A","P","I","_","K","E","Y">>
NURO_MODEL == <<"N","U","R","O","_","M","O","D","E","L">>
NURO_PROVIDER == <<"N","U","R","O","_","P","R","O","V","I","D","E","R">>
NURO_BASE_URL == <<"N","U","R","O","_","B","A","S","E","_","U","R","L">>
OPENAI_BASE_URL == <<"O","P","E","N","A","I","_","B","A","S","E","_","U","R","L">>
OPENAI_API_KEY == <<"O","P","E","N","A","I","_","A","P","I","_","K","E","Y">>
ANTHROPIC_API_KEY == <<"A","N","T","H","R","O","P","I","C","_","A","P","I","_","K","E","Y">>
GOOGLE_API_KEY == <<"G","O","O","G","L","E","_","A","P","I","_","K","E","Y">>
AZURE_OPENAI_API_KEY == <<"A","Z","U","R","E","_","O","P","E","N","A","I","_","A","P","I","_","K","E","Y">>
OPENROUTER_API_KEY == <<"O","P","E","N","R","O","U","T","E","R","_","A","P","I","_","K","E","Y">>
GROQ_API_KEY == <<"G","R","O","Q","_","A","P","I","_","K","E","Y">>
MISTRAL_API_KEY == <<"M","I","S","T","R","A","L","_","A","P","I","_","K","E","Y">>
TOGETHER_API_KEY == <<"T","O","G","E","T","H","E","R","_","A","P","I","_","K","E","Y">>
COHERE_API_KEY == <<"C","O","H","E","R","E","_","A","P","I","_","K","E","Y">>
UNSET_VAR == <<"U","N","S","E","T","_","V","A","R">>

\* Provider names.
p_openai == <<"o","p","e","n","a","i">>
p_anthropic == <<"a","n","t","h","r","o","p","i","c">>
p_google == <<"g","o","o","g","l","e">>
p_azureopenai == <<"a","z","u","r","e","o","p","e","n","a","i">>
p_openrouter == <<"o","p","e","n","r","o","u","t","e","r">>
p_groq == <<"g","r","o","q">>
p_mistral == <<"m","i","s","t","r","a","l">>
p_together == <<"t","o","g","e","t","h","e","r">>
p_cohere == <<"c","o","h","e","r","e">>
p_ollama == <<"o","l","l","a","m","a">>

\* Model ids: the hint prefixes, the built-in defaults and the model
\* arguments the model draws from.
h_gpt_dash == <<"g","p","t","-">>
h_o4 == <<"o","4">>
h_gpt4 == <<"g","p","t","4">>
h_gpt_4 == <<"g","p","t","-","4">>
h_claude == <<"c","l","a","u","d","e">>
h_gemini == <<"g","e","m","i","n","i">>
h_mistral == <<"m","i","s","t","r","a","l">>
h_mixtral == <<"m","i","x","t","r","a","l">>
h_llama == <<"l","l","a","m","a">>
m_gpt_4o_mini == <<"g","p","t","-","4","o","-","m","i","n","i">>
m_claude_3_5_sonnet == <<"c","l","a","u","d","e","-","3","-","5","-","s","o","n","n","e","t">>
m_gemini_1_5_pro == <<"g","e","m","i","n","i","-","1",".","5","-","p","r","o">>
m_llama3_70b_8192 == <<"l","l","a","m","a","3","-","7","0","b","-","8","1","9","2">>
m_mistral_large_latest == <<"m","i","s","t","r","a","l","-","l","a","r","g","e","-","l","a","t","e","s","t">>
m_openrouter_auto == <<"o","p","e","n","r","o","u","t","e","r","/","a","u","t","o">>
m_meta_llama == <<"m","e","t","a","-","l","l","a","m","a","/","M","e","t","a","-","L","l","a","m","a","-","3",".","1","-","7","0","B","-","I","n","s","t","r","u","c","t","-","T","u","r","b","o">>
m_command_r_plus == <<"c","o","m","m","a","n","d","-","r","-","p","l","u","s">>
m_unknown == <<"u","n","k","n","o","w","n">>
m_gpt_4o == <<"g","p","t","-","4","o">>
m_Claude_3 == <<"C","l","a","u","d","e","-","3">>
m_mixtral_8x7b == <<"m","i","x","t","r","a","l","-","8","x","7","b">>
m_phi3 == <<"p","h","i","3">>
m_llama3_1_8b == <<"l","l","a","m","a","3",".","1",":","8","b">>

(***************************************************************************)
(* Bounds                                                                  *)
(***************************************************************************)
\* At most this many provider credential variables are set in one environment.
MaxCreds == 2

Min(S) == CHOOSE x \in S : \A y \in S : x <= y

Chars == {AsciiOrder[i] : i \in 1..Len(AsciiOrder)}

\* Byte order of a character.
Ord == [c \in Chars |-> CHOOSE i \in 1..Len(AsciiOrder) : AsciiOrder[i] = c]

ToLowerChar ==
  [c \in Chars |->
     IF \E i \in 1..Len(UpperChars) : UpperChars[i] = c
     THEN LowerChars[CHOOSE i \in 1..Len(UpperChars) : UpperChars[i] = c]
     ELSE c]

ToUpperChar ==
  [c \in Chars |->
     IF \E i \in 1..Len(LowerChars) : LowerChars[i] = c
     THEN UpperChars[CHOOSE i \in 1..Len(LowerChars) : LowerChars[i] = c]
     ELSE c]

\* strings.ToLower / strings.ToUpper
ToLower(s) == [i \in 1..Len(s) |-> ToLowerChar[s[i]]]

ToUpper(s) == [i \in 1..Len(s) |-> ToUpperChar[s[i]]]

\* strings.HasPrefix
HasPrefix(s, prefix) ==
  /\ Len(s) >= Len(prefix)
  /\ SubSeq(s, 1, Len(prefix)) = prefix

\* strings.TrimPrefix
TrimPrefix(s, prefix) ==
  IF HasPrefix(s, prefix) THEN SubSeq(s, Len(prefix) + 1, Len(s)) ELSE s

\* The character U+0060 (grave accent), which a TLA+ string cannot hold.
Backquote == "U+0060"

Max(S) == CHOOSE x \in S : \A y \in S : x >= y

\* The white space strings.TrimSpace removes, as far as the inputs have it.
Space == {" ", "\t", "\n", "\r"}

\* strings.TrimSpace
TrimSpace(s) ==
  LET keep == {i \in 1..Len(s) : s[i] \notin Space}
  IN  IF keep = {} THEN <<>> ELSE SubSeq(s, Min(keep), Max(keep))

\* Go's string comparison a < b (byte-wise lexicographic), used by sort.Strings.
LessStr(a, b) ==
  \E k \in 1..Len(b) :
    /\ Len(a) >= k - 1
    /\ \A i \in 1..(k - 1) : a[i] = b[i]
    /\ (Len(a) < k \/ Ord[a[k]] < Ord[b[k]])

RECURSIVE InsertSorted(_, _)
InsertSorted(sorted, x) ==
  IF sorted = <<>> THEN <<x>>
  ELSE IF LessStr(x, Head(sorted)) THEN <<x>> \o sorted
  ELSE <<Head(sorted)>> \o InsertSorted(Tail(sorted), x)

RECURSIVE sortStrings(_)
\* sort.Strings: the ascending arrangement of the elements.
sortStrings(ss) ==
  IF ss = <<>> THEN <<>>
  ELSE InsertSorted(sortStrings(SubSeq(ss, 1, Len(ss) - 1)), ss[Len(ss)])

(***************************************************************************)
(* Environment catalog (resolver/resolver.go)                              *)
(***************************************************************************)
providerEnv ==
  (p_openai :> OPENAI_API_KEY) @@ (p_anthropic :> ANTHROPIC_API_KEY) @@
  (p_google :> GOOGLE_API_KEY) @@ (p_azureopenai :> AZURE_OPENAI_API_KEY) @@
  (p_openrouter :> OPENROUTER_API_KEY) @@ (p_groq :> GROQ_API_KEY) @@
  (p_mistral :> MISTRAL_API_KEY) @@ (p_together :> TOGETHER_API_KEY) @@
  (p_cohere :> COHERE_API_KEY)

modelHints ==
  << [prefix |-> h_gpt_dash, provider |-> p_openai],
     [prefix |-> h_o4,       provider |-> p_openai],
     [prefix |-> h_gpt4,     provider |-> p_openai],
     [prefix |-> h_gpt_4,    provider |-> p_openai],
     [prefix |-> h_claude,   provider |-> p_anthropic],
     [prefix |-> h_gemini,   provider |-> p_google],
     [prefix |-> h_mistral,  provider |-> p_mistral],
     [prefix |-> h_mixtral,  provider |-> p_mistral],
     [prefix |-> h_llama,    provider |-> p_groq] >>

\* The credential variables of the catalog.
CredVars == {providerEnv[p] : p \in DOMAIN providerEnv}

\* os.Getenv: the value of a variable, empty when it is unset.
Getenv(e, name) == IF name \in DOMAIN e THEN e[name] ELSE <<>>

firstNonEmpty(a, b) == IF a # <<>> THEN a ELSE b

contains(ss, t) == \E i \in 1..Len(ss) : ss[i] = t

\* The provider of the first hint, in declaration order, whose prefix the
\* lower-cased model starts with; empty when there is none.
inferProviderFromModel(model) ==
  LET m == ToLower(model)
      hits == {i \in 1..Len(modelHints) : HasPrefix(m, modelHints[i].prefix)}
  IN  IF hits = {} THEN <<>> ELSE modelHints[Min(hits)].provider

defaultModelFor(prov) ==
  CASE prov = p_openai      -> m_gpt_4o_mini
    [] prov = p_anthropic   -> m_claude_3_5_sonnet
    [] prov = p_google      -> m_gemini_1_5_pro
    [] prov = p_groq        -> m_llama3_70b_8192
    [] prov = p_mistral     -> m_mistral_large_latest
    [] prov = p_openrouter  -> m_openrouter_auto
    [] prov = p_together    -> m_meta_llama
    [] prov = p_cohere      -> m_command_r_plus
    [] prov = p_azureopenai -> m_gpt_4o_mini
    [] OTHER                -> m_unknown

(***************************************************************************)
(* Resolution results: a *ProviderResolution with a nil error, or a nil    *)
(* target with an error (the format string and its arguments).             *)
(***************************************************************************)
Target(prov, model, key, base, source) ==
  [ok |-> TRUE, ProviderName |-> prov, Model |-> model, APIKey |-> key,
   BaseURL |-> base, KeySource |-> source, err |-> <<>>]

Failure(e) ==
  [ok |-> FALSE, ProviderName |-> <<>>, Model |-> <<>>, APIKey |-> <<>>,
   BaseURL |-> <<>>, KeySource |-> <<>>, err |-> e]

\* The result variable before the resolver has run.
Unresolved ==
  [ok |-> FALSE, ProviderName |-> <<>>, Model |-> <<>>, APIKey |-> <<>>,
   BaseURL |-> <<>>, KeySource |-> <<>>, err |-> <<"not called">>]

\* Mutant: the provider's own credential, when set, is used instead of the
\* unified one.
resolveWithNuroVars_ownKey(e, nuroKey, cliModel) ==
  LET nuroModel == Getenv(e, NURO_MODEL)
      nuroProv  == ToLower(Getenv(e, NURO_PROVIDER))
      nuroBase  == Getenv(e, NURO_BASE_URL)
      model0    == firstNonEmpty(cliModel, nuroModel)
      inferred  == inferProviderFromModel(model0)
      prov      == IF nuroProv # <<>> THEN nuroProv
                   ELSE IF inferred # <<>> THEN inferred
                   ELSE p_openai
      own       == IF prov \in DOMAIN providerEnv
                   THEN Getenv(e, providerEnv[prov]) ELSE <<>>
  IN  IF model0 = <<>> /\ prov # p_openai
      THEN Failure(<<"no model specified; set --model or NURO_MODEL">>)
      ELSE Target(prov,
                  IF model0 = <<>> THEN m_gpt_4o_mini ELSE model0,
                  firstNonEmpty(own, nuroKey),
                  firstNonEmpty(nuroBase, Getenv(e, OPENAI_BASE_URL)),
                  NURO_API_KEY)

\* Mutant: the built-in default model is used whatever the provider is.
resolveWithNuroVars_defaultAlways(e, nuroKey, cliModel) ==
  LET nuroModel == Getenv(e, NURO_MODEL)
      nuroProv  == ToLower(Getenv(e, NURO_PROVIDER))
      nuroBase  == Getenv(e, NURO_BASE_URL)
      model0    == firstNonEmpty(cliModel, nuroModel)
      inferred  == inferProviderFromModel(model0)
      prov      == IF nuroProv # <<>> THEN nuroProv
                   ELSE IF inferred # <<>> THEN inferred
                   ELSE p_openai
  IN  Target(prov,
             IF model0 = <<>> THEN m_gpt_4o_mini ELSE model0,
             nuroKey,
             firstNonEmpty(nuroBase, Getenv(e, OPENAI_BASE_URL)),
             NURO_API_KEY)

\* Mutant: a provider hinted by the model name beats NURO_PROVIDER.
resolveWithNuroVars_hintFirst(e, nuroKey, cliModel) ==
  LET nuroModel == Getenv(e, NURO_MODEL)
      nuroProv  == ToLower(Getenv(e, NURO_PROVIDER))
      nuroBase  == Getenv(e, NURO_BASE_URL)
      model0    == firstNonEmpty(cliModel, nuroModel)
      inferred  == inferProviderFromModel(model0)
      prov      == IF inferred # <<>> THEN inferred
                   ELSE IF nuroProv # <<>> THEN nuroProv
                   ELSE p_openai
  IN  IF model0 = <<>> /\ prov # p_openai
      THEN Failure(<<"no model specified; set --model or NURO_MODEL">>)
      ELSE Target(prov,
                  IF model0 = <<>> THEN m_gpt_4o_mini ELSE model0,
                  nuroKey,
                  firstNonEmpty(nuroBase, Getenv(e, OPENAI_BASE_URL)),
                  NURO_API_KEY)

resolveWithNuroVars(e, nuroKey, cliModel) ==
  LET nuroModel == Getenv(e, NURO_MODEL)
      nuroProv  == ToLower(Getenv(e, NURO_PROVIDER))
      nuroBase  == Getenv(e, NURO_BASE_URL)
      model0    == firstNonEmpty(cliModel, nuroModel)
      inferred  == inferProviderFromModel(model0)
      prov      == IF nuroProv # <<>> THEN nuroProv
                   ELSE IF inferred # <<>> THEN inferred
                   ELSE p_openai
  IN  IF model0 = <<>> /\ prov # p_openai
      THEN Failure(<<"no model specified; set --model or NURO_MODEL">>)
      ELSE Target(prov,
                  IF model0 = <<>> THEN m_gpt_4o_mini ELSE model0,
                  nuroKey,
                  firstNonEmpty(nuroBase, Getenv(e, OPENAI_BASE_URL)),
                  NURO_API_KEY)

\* The providers appended to found by the range loop over the catalog map,
\* where iter is the order in which Go's map iteration meets the providers
\* whose credential is set (the others are skipped wherever they come).
foundProviders(e, iter) ==
  SelectSeq(iter, LAMBDA prov : Getenv(e, providerEnv[prov]) # <<>>)

RECURSIVE SetToSeq(_)
\* Some arrangement of a finite set.
SetToSeq(S) ==
  IF S = {} THEN <<>>
  ELSE LET x == CHOOSE y \in S : TRUE IN <<x>> \o SetToSeq(S \ {x})

\* The credential variable names, sorted (joined with ", " in the message).
envList == sortStrings(SetToSeq({providerEnv[q] : q \in DOMAIN providerEnv}))

\* Mutant: without a model argument, auto-discovery takes NURO_MODEL as the
\* model.
autoDiscoverProvider_nuroModel(e, cliModel, iter) ==
  LET found0 == foundProviders(e, iter)
      found  == sortStrings(found0)
      model0 == firstNonEmpty(cliModel, Getenv(e, NURO_MODEL))
      p      == inferProviderFromModel(model0)
      chosen0 == IF contains(found, p_openai) THEN p_openai ELSE found[1]
      chosen == IF model0 # <<>> /\ p # <<>> /\ contains(found, p)
                THEN p ELSE chosen0
  IN  IF Len(found0) = 0
      THEN Failure(<<"no provider keys found. Set NURO_API_KEY/NURO_MODEL or one of: %s",
                     envList>>)
      ELSE IF model0 # <<>> /\ p # <<>> /\ ~contains(found, p)
      THEN Failure(<<"model '%s' implies provider '%s' but no %s key found",
                     model0, p, ToUpper(providerEnv[p])>>)
      ELSE Target(chosen,
                  IF model0 = <<>> THEN defaultModelFor(chosen) ELSE model0,
                  Getenv(e, providerEnv[chosen]),
                  IF chosen = p_openai THEN Getenv(e, OPENAI_BASE_URL) ELSE <<>>,
                  ToUpper(providerEnv[chosen]))

\* Mutant: a model whose hinted provider has no credential falls back to the
\* provider chosen from the credentials that are set.
autoDiscoverProvider_fallback(e, cliModel, iter) ==
  LET found0 == foundProviders(e, iter)
      found  == sortStrings(found0)
      p      == inferProviderFromModel(cliModel)
      chosen0 == IF contains(found, p_openai) THEN p_openai ELSE found[1]
      chosen == IF cliModel # <<>> /\ p # <<>> /\ contains(found, p)
                THEN p ELSE chosen0
  IN  IF Len(found0) = 0
      THEN Failure(<<"no provider keys found. Set NURO_API_KEY/NURO_MODEL or one of: %s",
                     envList>>)
      ELSE Target(chosen,
                  IF cliModel = <<>> THEN defaultModelFor(chosen) ELSE cliModel,
                  Getenv(e, providerEnv[chosen]),
                  IF chosen = p_openai THEN Getenv(e, OPENAI_BASE_URL) ELSE <<>>,
                  ToUpper(providerEnv[chosen]))

\* Mutant: found is not sorted before its first element is taken.
autoDiscoverProvider_unsorted(e, cliModel, iter) ==
  LET found  == foundProviders(e, iter)
      p      == inferProviderFromModel(cliModel)
      chosen0 == IF contains(found, p_openai) THEN p_openai ELSE found[1]
      chosen == IF cliModel # <<>> /\ p # <<>> /\ contains(found, p)
                THEN p ELSE chosen0
  IN  IF Len(found) = 0
      THEN Failure(<<"no provider keys found. Set NURO_API_KEY/NURO_MODEL or one of: %s",
                     envList>>)
      ELSE IF cliModel # <<>> /\ p # <<>> /\ ~contains(found, p)
      THEN Failure(<<"model '%s' implies provider '%s' but no %s key found",
                     cliModel, p, ToUpper(providerEnv[p])>>)
      ELSE Target(chosen,
                  IF cliModel = <<>> THEN defaultModelFor(chosen) ELSE cliModel,
                  Getenv(e, providerEnv[chosen]),
                  IF chosen = p_openai THEN Getenv(e, OPENAI_BASE_URL) ELSE <<>>,
                  ToUpper(providerEnv[chosen]))

autoDiscoverProvider(e, cliModel, iter) ==
  LET found0 == foundProviders(e, iter)
      found  == sortStrings(found0)
      p      == inferProviderFromModel(cliModel)
      chosen0 == IF contains(found, p_openai) THEN p_openai ELSE found[1]
      chosen == IF cliModel # <<>> /\ p # <<>> /\ contains(found, p)
                THEN p ELSE chosen0
  IN  IF Len(found0) = 0
      THEN Failure(<<"no provider keys found. Set NURO_API_KEY/NURO_MODEL or one of: %s",
                     envList>>)
      ELSE IF cliModel # <<>> /\ p # <<>> /\ ~contains(found, p)
      THEN Failure(<<"model '%s' implies provider '%s' but no %s key found",
                     cliModel, p, ToUpper(providerEnv[p])>>)
      ELSE Target(chosen,
                  IF cliModel = <<>> THEN defaultModelFor(chosen) ELSE cliModel,
                  Getenv(e, providerEnv[chosen]),
                  IF chosen = p_openai THEN Getenv(e, OPENAI_BASE_URL) ELSE <<>>,
                  ToUpper(providerEnv[chosen]))

\* Mutant: a "$"-reference to an empty variable counts as no model argument.
ResolveProviderAndModel_emptyRefIsNoModel(e, modelArg, iter) ==
  LET indirect == modelArg # <<>> /\ HasPrefix(modelArg, <<"$">>)
      ref      == TrimPrefix(modelArg, <<"$">>)
      cliModel == IF indirect THEN Getenv(e, ref) ELSE modelArg
  IN  IF Getenv(e, NURO_API_KEY) # <<>>
      THEN resolveWithNuroVars(e, Getenv(e, NURO_API_KEY), cliModel)
      ELSE autoDiscoverProvider(e, cliModel, iter)

ResolveProviderAndModel(e, modelArg, iter) ==
  LET indirect == modelArg # <<>> /\ HasPrefix(modelArg, <<"$">>)
      ref      == TrimPrefix(modelArg, <<"$">>)
      cliModel == IF indirect THEN Getenv(e, ref) ELSE modelArg
  IN  IF indirect /\ cliModel = <<>>
      THEN Failure(<<"model env '%s' is empty or unset", ref>>)
      ELSE IF Getenv(e, NURO_API_KEY) # <<>>
      THEN resolveWithNuroVars(e, Getenv(e, NURO_API_KEY), cliModel)
      ELSE autoDiscoverProvider(e, cliModel, iter)

(***************************************************************************)
(* The resolver of package main (env.go): the same cascade, returning a    *)
(* providerResolution, which has no KeySource field.                       *)
(***************************************************************************)
MainTarget(prov, model, key, base) ==
  [ok |-> TRUE, ProviderName |-> prov, Model |-> model, APIKey |-> key,
   BaseURL |-> base, err |-> <<>>]

MainFailure(e) ==
  [ok |-> FALSE, ProviderName |-> <<>>, Model |-> <<>>, APIKey |-> <<>>,
   BaseURL |-> <<>>, err |-> e]

MainUnresolved ==
  [ok |-> FALSE, ProviderName |-> <<>>, Model |-> <<>>, APIKey |-> <<>>,
   BaseURL |-> <<>>, err |-> <<"not called">>]

resolveProviderAndModel(e, modelArg, iter) ==
  LET nuroKey   == Getenv(e, NURO_API_KEY)
      nuroModel == Getenv(e, NURO_MODEL)
      nuroProv  == ToLower(Getenv(e, NURO_PROVIDER))
      nuroBase  == Getenv(e, NURO_BASE_URL)
      indirect  == modelArg # <<>> /\ HasPrefix(modelArg, <<"$">>)
      ref       == TrimPrefix(modelArg, <<"$">>)
      cliModel  == IF indirect THEN Getenv(e, ref) ELSE modelArg
      \* NURO_* branch
      nModel0   == firstNonEmpty(cliModel, nuroModel)
      inferred  == inferProviderFromModel(nModel0)
      nProv     == IF nuroProv # <<>> THEN nuroProv
                   ELSE IF inferred # <<>> THEN inferred
                   ELSE p_openai
      nModel    == IF nModel0 = <<>> /\ nProv = p_openai
                   THEN m_gpt_4o_mini ELSE nModel0
      \* discovery branch
      found     == sortStrings(foundProviders(e, iter))
      p         == inferProviderFromModel(cliModel)
      chosen0   == IF contains(found, p_openai) THEN p_openai ELSE found[1]
      chosen1   == IF cliModel # <<>> /\ p # <<>> /\ contains(found, p)
                   THEN p ELSE chosen0
      base      == IF chosen1 = p_openai
                   THEN firstNonEmpty(Getenv(e, OPENAI_BASE_URL), <<>>)
                   ELSE <<>>
      model     == IF cliModel # <<>> THEN cliModel
                   ELSE IF chosen1 = p_openai THEN m_gpt_4o_mini
                   ELSE defaultModelFor(chosen1)
      p2        == inferProviderFromModel(model)
      reroute   == p2 # <<>> /\ p2 # chosen1 /\ contains(found, p2)
      chosen    == IF reroute THEN p2 ELSE chosen1
  IN  IF indirect /\ cliModel = <<>>
      THEN MainFailure(<<"model env '%s' is empty or unset", ref>>)
      ELSE IF nuroKey # <<>>
      THEN IF nModel = <<>>
           THEN MainFailure(<<"no model specified; set --model or NURO_MODEL">>)
           ELSE MainTarget(nProv, nModel, nuroKey,
                           firstNonEmpty(nuroBase, Getenv(e, OPENAI_BASE_URL)))
      ELSE IF Len(found) = 0
      THEN MainFailure(<<"no provider keys found. Set NURO_API_KEY/NURO_MODEL or one of: %s",
                         envList>>)
      ELSE IF cliModel # <<>> /\ p # <<>> /\ ~contains(found, p)
      THEN MainFailure(<<"model '%s' implies provider '%s' but no %s key found",
                         cliModel, p, ToUpper(providerEnv[p])>>)
      ELSE MainTarget(chosen, model, Getenv(e, providerEnv[chosen]), base)

(***************************************************************************)
(* Inputs of the resolver                                                  *)
(***************************************************************************)
\* The value a credential variable holds when it is set.
KeyOf(v) == <<"k", "-">> \o ToLower(v)

\* The credential variables the model sets: those of the providers that
\* hints point to (google excepted, so that a hinted provider can lack its
\* credential whatever else is set) and of two providers without any hint.
SettableCredVars ==
  {OPENAI_API_KEY, ANTHROPIC_API_KEY, MISTRAL_API_KEY, GROQ_API_KEY,
   AZURE_OPENAI_API_KEY, TOGETHER_API_KEY}

\* The provider credential variables: any choice of at most MaxCreds of the
\* settable ones set, all the others empty.
CredEnvs ==
  { [v \in CredVars |-> IF v \in S THEN KeyOf(v) ELSE <<>>] :
      S \in {T \in SUBSET SettableCredVars : Cardinality(T) <= MaxCreds} }

\* The unified variables and the OpenAI base URL.
NuroEnvs ==
  [ {NURO_API_KEY}    -> {<<>>, <<"d", "u", "m", "m", "y">>} ] \X
  [ {NURO_MODEL}      -> {<<>>, m_Claude_3} ] \X
  [ {NURO_PROVIDER}   -> {<<>>, <<"O", "l", "l", "a", "m", "a">>, p_openai,
                          <<"a", "c", "m", "e">>} ] \X
  [ {NURO_BASE_URL}   -> {<<>>, <<"l", "o", "c", "a", "l", ":", "1">>} ] \X
  [ {OPENAI_BASE_URL} -> {<<>>, <<"p", "r", "o", "x", "y", "/", "v", "1">>} ]

Envs ==
  { n[1] @@ n[2] @@ n[3] @@ n[4] @@ n[5] @@ c : n \in NuroEnvs, c \in CredEnvs }

\* The --model arguments: none, literal ids, and "$"-references to a set
\* variable, to a credential variable and to a variable that is never set.
ModelArgs ==
  { <<>>, m_gpt_4o, m_Claude_3, m_mixtral_8x7b, m_phi3,
    <<"$">> \o NURO_MODEL, <<"$">> \o OPENAI_API_KEY, <<"$">> \o UNSET_VAR }

\* The environment e with its credential variables set as in c.
WithCreds(e, c) == [v \in DOMAIN e |-> IF v \in CredVars THEN c[v] ELSE e[v]]

\* The orders in which ranging over the catalog map can meet the providers
\* whose credential is set: every arrangement of them.
IterOrders(e) ==
  LET present == {q \in DOMAIN providerEnv : Getenv(e, providerEnv[q]) # <<>>}
  IN  {s \in [1..Cardinality(present) -> present] :
         \A i, j \in 1..Cardinality(present) : i # j => s[i] # s[j]}

(***************************************************************************)
(* Streamed lines.  A line is what ReadString returned, described by what  *)
(* the decoders look at: whether it is empty, whether the trimmed line     *)
(* starts with "data: ", and what the JSON text is.  A JSON object is      *)
(* described by the fields the three chunk types decode, and by the set of *)
(* fields whose JSON type does not fit the Go field (json.Unmarshal then   *)
(* returns an error).                                                      *)
(***************************************************************************)
\* At most this many lines are delivered before the transport ends.
MaxReads == 3

t_a == <<"H", "i">>

t_b == <<"!">>

Obj(response, done, pec, ec, choices, output, illTyped) ==
  [response |-> response, done |-> done, prompt_eval_count |-> pec,
   eval_count |-> ec, choices |-> choices, output |-> output,
   illTyped |-> illTyped]

EmptyObj == Obj(<<>>, FALSE, 0, 0, <<>>, <<>>, {})

\* {"response":"Hi","done":false}
O_a == Obj(t_a, FALSE, 0, 0, <<>>, <<>>, {})

\* {"response":"","done":false}
O_empty == Obj(<<>>, FALSE, 0, 0, <<>>, <<>>, {})

\* {"response":"!","done":true,"eval_count":2,"prompt_eval_count":3}
O_done == Obj(t_b, TRUE, 3, 2, <<>>, <<>>, {})

\* {"response":"","done":true,"prompt_eval_count":1}
O_done0 == Obj(<<>>, TRUE, 1, 0, <<>>, <<>>, {})

\* {"choices":[{"delta":{"content":"Hi"}}]}
C_a == Obj(<<>>, FALSE, 0, 0, <<t_a>>, <<>>, {})

\* {"choices":[{"delta":{}},{"delta":{"content":"!"}}]}
C_eb == Obj(<<>>, FALSE, 0, 0, <<<<>>, t_b>>, <<>>, {})

\* {"output":[{"content":[{"type":"text","text":"Hi"},{"type":"text"}]},
\*            {"content":[{"type":"text","text":"!"}]}]}
R_ab == Obj(<<>>, FALSE, 0, 0, <<>>, <<<<t_a, <<>>>>, <<t_b>>>>, {})

\* {"output":"x","response":7,"done":true,"choices":[{"delta":{"content":"Hi"}}]}
X_chat == Obj(<<>>, TRUE, 0, 0, <<t_a>>, <<>>, {"output", "response"})

Line(data, body, obj) == [data |-> data, body |-> body, obj |-> obj]

\* ReadString returned no bytes.
NoLine == Line(FALSE, "none", EmptyObj)

\* Only white space.
BlankLine == Line(FALSE, "blank", EmptyObj)

\* data: [DONE]
DoneLine == Line(TRUE, "done", EmptyObj)

\* Text that is not valid JSON, raw and after "data: ".
BadLine == Line(FALSE, "bad", EmptyObj)

DataBadLine == Line(TRUE, "bad", EmptyObj)

\* The lines each decoder is fed.
Lines(d) ==
  CASE d = "ollama" ->
         {BlankLine, BadLine, Line(TRUE, "json", O_a)}
         \cup {Line(FALSE, "json", o) : o \in {O_a, O_empty, O_done, O_done0, X_chat}}
    [] d = "chat" ->
         {BlankLine, DoneLine, DataBadLine, Line(FALSE, "json", C_a)}
         \cup {Line(TRUE, "json", o) : o \in {C_a, C_eb, R_ab, X_chat}}
    [] d = "responses" ->
         {BlankLine, DoneLine, DataBadLine, Line(FALSE, "json", R_ab)}
         \cup {Line(TRUE, "json", o) : o \in {R_ab, C_a, C_eb, X_chat}}

Decoders == {"ollama", "chat", "responses"}

\* The error ReadString returns with a line: none, io.EOF,
\* io.ErrUnexpectedEOF, or any other transport error.
ReadErrs == {"nil", "EOF", "UnexpectedEOF", "other"}

Usage(p, c, t) == [PromptTokens |-> p, CompletionTokens |-> c, TotalTokens |-> t]

ZeroUsage == Usage(0, 0, 0)

\* strings.Builder contents after writing the fragments in order.
RECURSIVE Concat(_)
Concat(fragments) ==
  IF fragments = <<>> THEN <<>> ELSE Head(fragments) \o Concat(Tail(fragments))

NonEmpty(fragments) == SelectSeq(fragments, LAMBDA t : t # <<>>)

\* json.Unmarshal into ollamaGenerateResponse / oaStreamChunk /
\* oaResponsesStreamChunk succeeds on a JSON object whose fields fit.
unmarshalOllama(l) ==
  /\ l.body = "json"
  /\ ~l.data
  /\ l.obj.illTyped \cap {"response", "done", "prompt_eval_count", "eval_count"} = {}

unmarshalChat(l) == l.body = "json" /\ "choices" \notin l.obj.illTyped

unmarshalResponses(l) == l.body = "json" /\ "output" \notin l.obj.illTyped

\* What one pass over a line does: the texts handed to onDelta in order, the
\* texts written to total in order, the usage captured, and how the
\* iteration goes on: "break" leaves the loop, "continue" starts the next
\* iteration at once, "check" falls through to the error handling.
LineEffect(emit, write, usage, next) ==
  [emit |-> emit, write |-> write, usage |-> usage, next |-> next]

\* Mutant: a line that does not parse ends the stream.
ollamaLine_stopOnBadLine(l, usage) ==
  IF l.body \notin {"none", "blank"}
  THEN IF unmarshalOllama(l)
       THEN LineEffect(NonEmpty(<<l.obj.response>>),
                       NonEmpty(<<l.obj.response>>),
                       IF l.obj.done
                       THEN Usage(l.obj.prompt_eval_count, l.obj.eval_count,
                                  l.obj.prompt_eval_count + l.obj.eval_count)
                       ELSE usage,
                       IF l.obj.done THEN "break" ELSE "check")
       ELSE LineEffect(<<>>, <<>>, usage, "break")
  ELSE LineEffect(<<>>, <<>>, usage, "check")

\* Mutant: the done flag is tested before the response text is emitted.
ollamaLine_doneFirst(l, usage) ==
  IF l.body \notin {"none", "blank"} /\ unmarshalOllama(l)
  THEN IF l.obj.done
       THEN LineEffect(<<>>, <<>>,
                       Usage(l.obj.prompt_eval_count, l.obj.eval_count,
                             l.obj.prompt_eval_count + l.obj.eval_count),
                       "break")
       ELSE LineEffect(NonEmpty(<<l.obj.response>>),
                       NonEmpty(<<l.obj.response>>), usage, "check")
  ELSE LineEffect(<<>>, <<>>, usage, "check")

ollamaLine(l, usage) ==
  IF l.body \notin {"none", "blank"} /\ unmarshalOllama(l)
  THEN LineEffect(NonEmpty(<<l.obj.response>>),
                  NonEmpty(<<l.obj.response>>),
                  IF l.obj.done
                  THEN Usage(l.obj.prompt_eval_count, l.obj.eval_count,
                             l.obj.prompt_eval_count + l.obj.eval_count)
                  ELSE usage,
                  IF l.obj.done THEN "break" ELSE "check")
  ELSE LineEffect(<<>>, <<>>, usage, "check")

\* Mutant: the delta is handed to the sink but not written to total.
chatLine_noWrite(l, usage) ==
  IF l.body # "none" /\ l.data
  THEN IF l.body = "done" THEN LineEffect(<<>>, <<>>, usage, "break")
       ELSE IF unmarshalChat(l)
       THEN LineEffect(NonEmpty(l.obj.choices), <<>>, usage, "check")
       ELSE LineEffect(<<>>, <<>>, usage, "check")
  ELSE LineEffect(<<>>, <<>>, usage, "check")

\* Mutant: the payload is decoded whether or not the line starts with "data: ".
chatLine_noPrefixCheck(l, usage) ==
  IF l.body # "none"
  THEN IF l.data /\ l.body = "done" THEN LineEffect(<<>>, <<>>, usage, "break")
       ELSE IF unmarshalChat(l)
       THEN LineEffect(NonEmpty(l.obj.choices), NonEmpty(l.obj.choices),
                       usage, "check")
       ELSE LineEffect(<<>>, <<>>, usage, "check")
  ELSE LineEffect(<<>>, <<>>, usage, "check")

chatLine(l, usage) ==
  IF l.body # "none" /\ l.data
  THEN IF l.body = "done" THEN LineEffect(<<>>, <<>>, usage, "break")
       ELSE IF unmarshalChat(l)
       THEN LineEffect(NonEmpty(l.obj.choices), NonEmpty(l.obj.choices),
                       usage, "check")
       ELSE LineEffect(<<>>, <<>>, usage, "check")
  ELSE LineEffect(<<>>, <<>>, usage, "check")

responsesLine(l, usage) ==
  IF l.body # "none" /\ l.data
  THEN IF l.body = "done" THEN LineEffect(<<>>, <<>>, usage, "break")
       ELSE IF unmarshalResponses(l)
       THEN LineEffect(NonEmpty(Concat(l.obj.output)),
                       NonEmpty(Concat(l.obj.output)), usage, "continue")
       ELSE IF unmarshalChat(l)
       THEN LineEffect(NonEmpty(l.obj.choices), NonEmpty(l.obj.choices),
                       usage, "check")
       ELSE LineEffect(<<>>, <<>>, usage, "check")
  ELSE LineEffect(<<>>, <<>>, usage, "check")

\* The check at the head of the loop, given whether ctx.Err() is non-nil.
ollamaLoopHead(ctxDone) == IF ctxDone THEN "return ctx" ELSE "read"

chatLoopHead(ctxDone) == "read"

responsesLoopHead(ctxDone) == "read"

\* The handling of a non-nil read error, given whether ctx.Err() is non-nil.
\* Mutant: end-of-input is returned as an error.
ollamaOnErr_eofFails(err, ctxDone) ==
  IF ctxDone THEN "return ctx"
  ELSE IF err = "UnexpectedEOF" THEN "continue"
  ELSE "return err"

ollamaOnErr(err, ctxDone) ==
  IF ctxDone THEN "return ctx"
  ELSE IF err = "EOF" THEN "break"
  ELSE IF err = "UnexpectedEOF" THEN "continue"
  ELSE "return err"

chatOnErr(err, ctxDone) ==
  IF err = "EOF" THEN "break"
  ELSE IF ctxDone THEN "return ctx"
  ELSE IF err = "UnexpectedEOF" THEN "continue"
  ELSE "return err"

\* Mutant: the transport error is returned before the context is looked at.
responsesOnErr_errFirst(err, ctxDone) ==
  IF err = "EOF" THEN "break"
  ELSE IF err = "other" THEN "return err"
  ELSE IF ctxDone THEN "return ctx"
  ELSE "continue"

responsesOnErr(err, ctxDone) ==
  IF err = "EOF" THEN "break"
  ELSE IF ctxDone THEN "return ctx"
  ELSE IF err = "UnexpectedEOF" THEN "continue"
  ELSE "return err"

lineOf(d, l, usage) ==
  CASE d = "ollama"    -> ollamaLine(l, usage)
    [] d = "chat"      -> chatLine(l, usage)
    [] d = "responses" -> responsesLine(l, usage)

loopHeadOf(d, ctxDone) ==
  CASE d = "ollama"    -> ollamaLoopHead(ctxDone)
    [] d = "chat"      -> chatLoopHead(ctxDone)
    [] d = "responses" -> responsesLoopHead(ctxDone)

onErrOf(d, err, ctxDone) ==
  CASE d = "ollama"    -> ollamaOnErr(err, ctxDone)
    [] d = "chat"      -> chatOnErr(err, ctxDone)
    [] d = "responses" -> responsesOnErr(err, ctxDone)

(***************************************************************************)
(* Requests.  A request is the endpoint path and the JSON body, a function *)
(* from the names of the fields json.Marshal writes to their values.       *)
(* Temperature and top-p are counted in tenths.                            *)
(***************************************************************************)
\* A struct field for json.Marshal: omitempty drops it when zero says the
\* value is the zero value of the field's type.
Field(name, value, omitempty, zero) ==
  [name |-> name, value |-> value, omitempty |-> omitempty, zero |-> zero]

\* json.Marshal of a struct with these fields.
Marshal(fields) ==
  LET kept == {f \in fields : ~(f.omitempty /\ f.zero)}
  IN  [n \in {f.name : f \in kept} |-> (CHOOSE f \in kept : f.name = n).value]

Request(endpoint, body) == [sent |-> TRUE, endpoint |-> endpoint, body |-> body]

NoRequest == [sent |-> FALSE, endpoint |-> "", body |-> <<>>]

CompletionArgs(model, prompt, data, maxTokens, temperature, topP) ==
  [Model |-> model, Prompt |-> prompt, Data |-> data, MaxTokens |-> maxTokens,
   Temperature |-> temperature, TopP |-> topP]

NoArgs == CompletionArgs(<<>>, <<>>, <<>>, 0, 0, 0)

modelUsesResponsesAPI(model) ==
  LET m == TrimSpace(ToLower(model))
  IN  /\ m # <<>>
      /\ \E p \in {<<"o", "1">>, <<"g", "p", "t", "-", "4", ".", "1">>,
                   <<"g", "p", "t", "-", "5">>} : HasPrefix(m, p)

\* Mutant: the model id is lower-cased but not trimmed.
responsesSupportsSampling_noTrim(model) ==
  LET m == ToLower(model)
  IN  m = <<>> \/ ~HasPrefix(m, <<"g", "p", "t", "-", "5">>)

responsesSupportsSampling(model) ==
  LET m == TrimSpace(ToLower(model))
  IN  m = <<>> \/ ~HasPrefix(m, <<"g", "p", "t", "-", "5">>)

\* Mutant: emptiness is tested on the trimmed strings, the untrimmed ones
\* are joined.
buildUserContent_untrimmed(prompt, data) ==
  LET p == TrimSpace(prompt)
      d == TrimSpace(data)
  IN  IF p # <<>> /\ d # <<>>
      THEN prompt \o <<" ", "i", "n", " ", "t", "h", "e", " ", "f", "o", "l", "l", "o", "w", "i", "n", "g", " ", "d", "a", "t", "a", ":", " ">> \o data
      ELSE IF p # <<>> THEN prompt
      ELSE IF d # <<>>
      THEN <<"D", "a", "t", "a", ":", "\n", Backquote, Backquote, Backquote, "\n">> \o d \o <<"\n", Backquote, Backquote, Backquote>>
      ELSE <<>>

\* Mutant: the fenced block of the data-only case ends with a newline.
buildUserContent_trailingNewline(prompt, data) ==
  LET p == TrimSpace(prompt)
      d == TrimSpace(data)
  IN  IF p # <<>> /\ d # <<>>
      THEN p \o <<" ", "i", "n", " ", "t", "h", "e", " ", "f", "o", "l", "l", "o", "w", "i", "n", "g", " ", "d", "a", "t", "a", ":", " ">> \o d
      ELSE IF p # <<>> THEN p
      ELSE IF d # <<>>
      THEN <<"D", "a", "t", "a", ":", "\n", Backquote, Backquote, Backquote, "\n">> \o d \o <<"\n", Backquote, Backquote, Backquote>> \o <<"\n">>
      ELSE <<>>

buildUserContent(prompt, data) ==
  LET p == TrimSpace(prompt)
      d == TrimSpace(data)
  IN  IF p # <<>> /\ d # <<>>
      THEN p \o <<" ", "i", "n", " ", "t", "h", "e", " ", "f", "o", "l", "l", "o", "w", "i", "n", "g", " ", "d", "a", "t", "a", ":", " ">> \o d
      ELSE IF p # <<>> THEN p
      ELSE IF d # <<>>
      THEN <<"D", "a", "t", "a", ":", "\n", Backquote, Backquote, Backquote, "\n">> \o d \o <<"\n", Backquote, Backquote, Backquote>>
      ELSE <<>>

assembleMessages(prompt, data) ==
  << [role |-> "user", content |-> buildUserContent(prompt, data)] >>

\* Mutant: prompt and data are joined as in the prose join.
buildOllamaPrompt_proseJoin(prompt, data) ==
  LET p == TrimSpace(prompt)
      d == TrimSpace(data)
  IN  IF p # <<>> /\ d # <<>>
      THEN p \o <<" ", "i", "n", " ", "t", "h", "e", " ", "f", "o", "l", "l", "o", "w", "i", "n", "g", " ", "d", "a", "t", "a", ":", " ">> \o d
      ELSE IF p # <<>> THEN p
      ELSE IF d # <<>>
      THEN <<"H", "e", "r", "e", " ", "i", "s", " ", "s", "o", "m", "e", " ", "d", "a", "t", "a", " ", "t", "o", " ", "a", "n", "a", "l", "y", "z", "e", ":", "\n", "\n", Backquote, Backquote, Backquote, "\n">> \o d \o <<"\n", Backquote, Backquote, Backquote>>
      ELSE <<>>

buildOllamaPrompt(prompt, data) ==
  LET p == TrimSpace(prompt)
      d == TrimSpace(data)
  IN  IF p # <<>> /\ d # <<>>
      THEN p \o <<"\n", "\n", "D", "a", "t", "a", ":", "\n", Backquote, Backquote, Backquote, "\n">> \o d \o <<"\n", Backquote, Backquote, Backquote>>
      ELSE IF p # <<>> THEN p
      ELSE IF d # <<>>
      THEN <<"H", "e", "r", "e", " ", "i", "s", " ", "s", "o", "m", "e", " ", "d", "a", "t", "a", " ", "t", "o", " ", "a", "n", "a", "l", "y", "z", "e", ":", "\n", "\n", Backquote, Backquote, Backquote, "\n">> \o d \o <<"\n", Backquote, Backquote, Backquote>>
      ELSE <<>>

\* The body of the responses path; sampling says whether the sampling
\* parameters were copied into the struct.
responsesBody(args, stream, sampling) ==
  Marshal({Field("model", args.Model, FALSE, FALSE),
           Field("input", buildUserContent(args.Prompt, args.Data), FALSE, FALSE),
           Field("max_output_tokens", args.MaxTokens, TRUE, args.MaxTokens = 0),
           Field("temperature", IF sampling THEN args.Temperature ELSE 0, TRUE,
                 ~sampling \/ args.Temperature = 0),
           Field("top_p", IF sampling THEN args.TopP ELSE 0, TRUE,
                 ~sampling \/ args.TopP = 0),
           Field("stream", stream, TRUE, ~stream)})

chatBody(args, stream) ==
  Marshal({Field("model", args.Model, FALSE, FALSE),
           Field("messages", assembleMessages(args.Prompt, args.Data), FALSE, FALSE),
           Field("max_tokens", args.MaxTokens, TRUE, args.MaxTokens = 0),
           Field("temperature", args.Temperature, TRUE, args.Temperature = 0),
           Field("top_p", args.TopP, TRUE, args.TopP = 0),
           Field("stream", stream, TRUE, ~stream)})

\* The options struct is written even when all its fields are dropped:
\* omitempty does not apply to a struct value.
ollamaBody(args, stream) ==
  Marshal({Field("model", args.Model, FALSE, FALSE),
           Field("prompt", buildOllamaPrompt(args.Prompt, args.Data), FALSE, FALSE),
           Field("stream", stream, FALSE, ~stream),
           Field("options",
                 Marshal({Field("temperature", args.Temperature, TRUE,
                                args.Temperature = 0),
                          Field("top_p", args.TopP, TRUE, args.TopP = 0),
                          Field("num_predict", args.MaxTokens, TRUE,
                                args.MaxTokens = 0)}),
                 TRUE, FALSE)})

\* The request openAIProvider.Complete sends.
openAICompleteRequest(args) ==
  IF modelUsesResponsesAPI(args.Model)
  THEN Request("/responses",
               responsesBody(args, FALSE, responsesSupportsSampling(args.Model)))
  ELSE Request("/chat/completions", chatBody(args, FALSE))

\* The request openAIProvider.Stream sends.
openAIStreamRequest(args) ==
  IF modelUsesResponsesAPI(args.Model)
  THEN Request("/responses",
               responsesBody(args, TRUE, responsesSupportsSampling(args.Model)))
  ELSE Request("/chat/completions", chatBody(args, TRUE))

\* The request ollamaProvider.Complete sends.
ollamaCompleteRequest(args) == Request("/api/generate", ollamaBody(args, FALSE))

\* The request ollamaProvider.Stream sends.
ollamaStreamRequest(args) == Request("/api/generate", ollamaBody(args, TRUE))

\* The model ids of the requests: none, white space only, chat models, and
\* models of the three responses families, in mixed case and with white
\* space around them.
RequestModels ==
  { <<>>, <<" ">>, m_gpt_4o, m_phi3,
    <<"g", "p", "t", "-", "5">>,
    <<" ", "G", "P", "T", "-", "5", "-", "m", "i", "n", "i", " ">>,
    <<"o", "1", "-", "m", "i", "n", "i">>,
    <<"G", "P", "T", "-", "4", ".", "1">>,
    <<"g", "p", "t", "-", "4", "-", "5">> }

\* Prompts and data: empty, white space only, and text with white space
\* around it.
Prompts == { <<>>, <<" ">>, <<" ", "H", "i", "\n">> }

Datas == { <<>>, <<"\n">>, <<" ", "x", " ", "y", " ">> }

\* Temperatures and top-p values in tenths, the ends of their ranges
\* included, and token limits.
Temperatures == {0, 7, 20}

TopPs == {0, 9, 10}

MaxTokenses == {0, 1024}

Backends == {"openai", "ollama"}

(***************************************************************************)
(* The command line and the .nuro profile.  Temperature and top-p are      *)
(* counted in tenths here too.                                             *)
(***************************************************************************)
NURO_MAX_TOKENS == <<"N", "U", "R", "O", "_", "M", "A", "X", "_", "T", "O", "K", "E", "N", "S">>
NURO_TEMPERATURE == <<"N", "U", "R", "O", "_", "T", "E", "M", "P", "E", "R", "A", "T", "U", "R", "E">>
NURO_TOP_P == <<"N", "U", "R", "O", "_", "T", "O", "P", "_", "P">>

Digits == <<"0", "1", "2", "3", "4", "5", "6", "7", "8", "9">>

\* strconv.Itoa of a natural number
RECURSIVE Itoa(_)
Itoa(n) ==
  IF n < 10 THEN <<Digits[n + 1]>>
  ELSE Itoa(n \div 10) \o <<Digits[(n % 10) + 1]>>

\* fmt.Sprintf("%.2f", x) of a number of tenths
FormatFloat2(t) == Itoa(t \div 10) \o <<".", Digits[(t % 10) + 1], "0">>

\* os.Setenv
Setenv(e, name, value) == (name :> value) @@ e

Profile(apiKey, baseURL, prov, model, maxTokens, temperature, topP) ==
  [APIKey |-> apiKey, BaseURL |-> baseURL, Provider |-> prov, Model |-> model,
   MaxTokens |-> maxTokens, Temperature |-> temperature, TopP |-> topP]

\* No .nuro file: nothing is applied.
NoProfile == Profile(<<>>, <<>>, <<>>, <<>>, 0, 0, 0)

\* Profile.Apply: the environment after the exports.
Apply(e, p) ==
  LET e1 == IF p.APIKey # <<>> THEN Setenv(e, NURO_API_KEY, p.APIKey) ELSE e
      e2 == IF p.BaseURL # <<>> THEN Setenv(e1, NURO_BASE_URL, p.BaseURL) ELSE e1
      e3 == IF p.Provider # <<>> THEN Setenv(e2, NURO_PROVIDER, p.Provider) ELSE e2
      e4 == IF p.Model # <<>> THEN Setenv(e3, NURO_MODEL, p.Model) ELSE e3
      e5 == IF p.MaxTokens > 0
            THEN Setenv(e4, NURO_MAX_TOKENS, Itoa(p.MaxTokens)) ELSE e4
      e6 == IF p.Temperature > 0
            THEN Setenv(e5, NURO_TEMPERATURE, FormatFloat2(p.Temperature)) ELSE e5
  IN  IF p.TopP > 0 THEN Setenv(e6, NURO_TOP_P, FormatFloat2(p.TopP)) ELSE e6

\* The command line: the flags that are given, and their values.
CmdLine(given, model, prompt, data, maxTokens, temperature, topP) ==
  [given |-> given, model |-> model, prompt |-> prompt, data |-> data,
   maxTokens |-> maxTokens, temperature |-> temperature, topP |-> topP]

NoCmdLine == CmdLine({}, <<>>, <<>>, <<>>, 0, 0, 0)

\* The cliFlags that main works with.
CliFlags(modelArg, prompt, data, maxTokens, temperature, topP, jsonOut, verbose) ==
  [modelArg |-> modelArg, prompt |-> prompt, data |-> data,
   maxTokens |-> maxTokens, temperature |-> temperature, topP |-> topP,
   jsonOut |-> jsonOut, verbose |-> verbose]

NoFlags == CliFlags(<<>>, <<>>, <<>>, 0, 0, 0, FALSE, FALSE)

\* The defaults of pflag.IntVar / Float64Var: 1024, 0.7, 1.0.
FlagDefaults == [maxTokens |-> 1024, temperature |-> 7, topP |-> 10]

\* parseFlags: a flag that is given has its value, any other its default; a
\* boolean flag is true when given.
parseFlags(c) ==
  CliFlags(IF "model" \in c.given THEN c.model ELSE <<>>,
           IF "prompt" \in c.given THEN c.prompt ELSE <<>>,
           IF "data" \in c.given THEN c.data ELSE <<>>,
           IF "max-tokens" \in c.given THEN c.maxTokens ELSE FlagDefaults.maxTokens,
           IF "temperature" \in c.given THEN c.temperature
           ELSE FlagDefaults.temperature,
           IF "top-p" \in c.given THEN c.topP ELSE FlagDefaults.topP,
           "json" \in c.given,
           "verbose" \in c.given)

\* The command lines: a prompt always, and any choice of --model gpt-5,
\* --max-tokens 256, --temperature 0 or 0.3, --top-p 0.5, --json, --verbose.
CmdLines ==
  { CmdLine(g \cup {"prompt"},
            IF "model" \in g THEN <<"g", "p", "t", "-", "5">> ELSE <<>>,
            <<" ", "H", "i", "\n">>, <<>>,
            IF "max-tokens" \in g THEN 256 ELSE 0,
            IF "temperature" \in g THEN t ELSE 0,
            IF "top-p" \in g THEN 5 ELSE 0) :
      g \in SUBSET {"model", "max-tokens", "temperature", "top-p", "json",
                    "verbose"},
      t \in {0, 3} }

\* The profiles of the .nuro file, each field set or left out.
Profiles ==
  { Profile(k, <<>>, p, m, n, t, tp) :
      k \in {<<>>, <<"d", "u", "m", "m", "y">>}, p \in {<<>>, p_ollama},
      m \in {<<>>, m_gpt_4o}, n \in {0, 1500}, t \in {0, 10}, tp \in {0, 8} }

\* The keys OPENAI_API_KEY can hold: of one, two, eight and sixteen characters.
MainKeys ==
  { <<"k">>, <<"s", "k">>, <<"s", "k", "-", "1", "2", "3", "4", "5">>,
    KeyOf(OPENAI_API_KEY) }

\* The environment nuro is started in: with or without OpenAI's key.
MainEnvs ==
  { (OPENAI_API_KEY :> k) : k \in {<<>>} \cup MainKeys }

\* What a call of redactKey comes to: the string it returns, or a run-time
\* panic (slice bounds out of range).
Redacted(text) == [called |-> TRUE, panic |-> FALSE, text |-> text]

Panicked == [called |-> TRUE, panic |-> TRUE, text |-> <<>>]

NotRedacted == [called |-> FALSE, panic |-> FALSE, text |-> <<>>]

Stars == <<"*", "*", "*">>

\* redactKey: key[:2] + "***" up to 6 characters, key[:4] + "***" up to 14,
\* else key[:10] + "***" + key[len(key)-4:].  A slice expression key[:n]
\* panics when n exceeds len(key).
redactKey(key) ==
  LET n == Len(key)
      upTo(k) == IF k <= n THEN Redacted(SubSeq(key, 1, k) \o Stars)
                 ELSE Panicked
  IN  IF n <= 14
      THEN IF n <= 6 THEN upTo(2) ELSE upTo(4)
      ELSE Redacted(SubSeq(key, 1, 10) \o Stars \o SubSeq(key, n - 3, n))

(***************************************************************************)
(* State                                                                   *)
(***************************************************************************)
VARIABLES
  env,        \* the process environment the resolver reads
  modelArg,   \* the --model argument
  res,        \* what resolver.ResolveProviderAndModel returned
  mainRes,    \* what resolveProviderAndModel of package main returned
  built,      \* what provider.BuildProvider returned for res
  dec,        \* the decoder whose Stream loop is running
  pc,         \* where the Stream loop is ("top", "read", "err", "done"), or main
  ctxDone,    \* ctx.Err() # nil
  got,        \* the reads made so far: line, error, and ctx state at return
  deltas,     \* the arguments of the onDelta calls, in call order
  total,      \* the strings.Builder total
  finalUsage, \* the usage captured so far
  readErr,    \* the error of the last ReadString
  ret,        \* what Stream returned
  complete,   \* what Complete returned for the same server output
  backend,    \* the provider whose requests are built
  args,       \* the CompletionArgs of the call
  completeReq, \* the request Complete sent
  streamReq,  \* the request Stream sent
  cmdline,    \* the command line nuro is run with
  flags,      \* the cliFlags parseFlags returned
  profile,    \* the profile of the .nuro file that is applied
  keyDisplay  \* what redactKey came to in main's diagnostics

vars == <<env, modelArg, res, mainRes, built, dec, pc, ctxDone, got, deltas, total,
          finalUsage, readErr, ret, complete, backend, args, completeReq,
          streamReq, cmdline, flags, profile, keyDisplay>>

resolverVars == <<env, modelArg, res, mainRes, built>>

streamVars == <<dec, pc, ctxDone, got, deltas, total, finalUsage, readErr, ret,
                complete>>

requestVars == <<backend, args, completeReq, streamReq>>

mainVars == <<cmdline, flags, profile, keyDisplay>>

\* The (Provider, error) pair of the factory: the backend is described by
\* what its Name() returns.
NotBuilt == [returned |-> FALSE, ok |-> FALSE, Name |-> <<>>, err |-> <<>>]

NewOpenAIProvider == [returned |-> TRUE, ok |-> TRUE, Name |-> p_openai, err |-> <<>>]

NewOllamaProvider == [returned |-> TRUE, ok |-> TRUE, Name |-> p_ollama, err |-> <<>>]

\* provider.BuildProvider
BuildProvider(r) ==
  IF r.ProviderName = p_openai THEN NewOpenAIProvider
  ELSE [returned |-> TRUE, ok |-> FALSE, Name |-> <<>>,
        err |-> <<"provider '%s' not implemented yet; set NURO_PROVIDER=openai or provide OPENAI_API_KEY",
                  r.ProviderName>>]

NotReturned == [returned |-> FALSE, text |-> <<>>, usage |-> ZeroUsage, err |-> "nil"]

Returned(text, usage, err) ==
  [returned |-> TRUE, text |-> text, usage |-> usage, err |-> err]

StreamIdle ==
  /\ dec = "none"
  /\ pc = "idle"
  /\ ctxDone = FALSE
  /\ got = <<>>
  /\ deltas = <<>>
  /\ total = <<>>
  /\ finalUsage = ZeroUsage
  /\ readErr = "nil"
  /\ ret = NotReturned
  /\ complete = NotReturned

RequestIdle ==
  /\ backend = "none"
  /\ args = NoArgs
  /\ completeReq = NoRequest
  /\ streamReq = NoRequest

MainIdle ==
  /\ cmdline = NoCmdLine
  /\ flags = NoFlags
  /\ profile = NoProfile
  /\ keyDisplay = NotRedacted

ResolverIdle ==
  /\ env = <<>>
  /\ modelArg = <<>>
  /\ res = Unresolved
  /\ mainRes = MainUnresolved
  /\ built = NotBuilt

(***************************************************************************)
(* The resolver                                                            *)
(***************************************************************************)
InitResolver ==
  /\ env \in Envs
  /\ modelArg \in ModelArgs
  /\ res = Unresolved
  /\ mainRes = MainUnresolved
  /\ built = NotBuilt
  /\ StreamIdle
  /\ RequestIdle
  /\ MainIdle

Resolve ==
  /\ pc = "idle"
  /\ res = Unresolved
  /\ \E iter \in IterOrders(env) :
       res' = ResolveProviderAndModel(env, modelArg, iter)
  /\ UNCHANGED <<env, modelArg, mainRes, built, streamVars, requestVars, mainVars>>

ResolveMain ==
  /\ pc = "idle"
  /\ mainRes = MainUnresolved
  /\ \E iter \in IterOrders(env) :
       mainRes' = resolveProviderAndModel(env, modelArg, iter)
  /\ UNCHANGED <<env, modelArg, res, built, streamVars, requestVars, mainVars>>

\* main builds the backend for the target the resolver returned.
Build ==
  /\ pc = "idle"
  /\ res.ok
  /\ ~built.returned
  /\ built' = BuildProvider(res)
  /\ UNCHANGED <<env, modelArg, res, mainRes, streamVars, requestVars, mainVars>>

NextResolver == Resolve \/ ResolveMain \/ Build

SpecResolver == InitResolver /\ [][NextResolver]_vars

(***************************************************************************)
(* The Stream loops                                                        *)
(***************************************************************************)
InitStream ==
  /\ dec \in Decoders
  /\ pc = "top"
  /\ ctxDone = FALSE
  /\ got = <<>>
  /\ deltas = <<>>
  /\ total = <<>>
  /\ finalUsage = ZeroUsage
  /\ readErr = "nil"
  /\ ret = NotReturned
  /\ complete = NotReturned
  /\ ResolverIdle
  /\ RequestIdle
  /\ MainIdle

Read(l, e) == [line |-> l, err |-> e]

\* What the next ReadString can return.  Once a read has failed, the body
\* keeps failing with the same error and no bytes; a read that delivers a
\* line without its newline fails as well (err # nil).
Outcomes(d, reads) ==
  IF reads # <<>> /\ reads[Len(reads)].err # "nil"
  THEN {Read(NoLine, reads[Len(reads)].err)}
  ELSE IF Len(reads) < MaxReads
  THEN {Read(l, e) : l \in Lines(d), e \in ReadErrs}
       \cup {Read(NoLine, e) : e \in ReadErrs \ {"nil"}}
  ELSE {Read(NoLine, e) : e \in ReadErrs \ {"nil"}}

\* A repeated failure is not a new read of the transport.
Record(reads, o, c) ==
  IF reads # <<>> /\ reads[Len(reads)].err # "nil"
  THEN reads
  ELSE Append(reads, [line |-> o.line, err |-> o.err, ctx |-> c])

\* The head of the for loop.
LoopHead ==
  /\ pc = "top"
  /\ IF loopHeadOf(dec, ctxDone) = "return ctx"
     THEN /\ pc' = "done"
          /\ ret' = Returned(total, finalUsage, "ctx")
     ELSE /\ pc' = "read"
          /\ ret' = ret
  /\ UNCHANGED <<resolverVars, requestVars, mainVars, dec, ctxDone, got, deltas, total, finalUsage, readErr,
               complete>>

\* reader.ReadString('\n') returns, and the line is decoded.
ReadLine ==
  /\ pc = "read"
  /\ \E o \in Outcomes(dec, got) :
       LET eff == lineOf(dec, o.line, finalUsage) IN
         /\ got' = Record(got, o, ctxDone)
         /\ readErr' = o.err
         /\ deltas' = deltas \o eff.emit
         /\ total' = total \o Concat(eff.write)
         /\ finalUsage' = eff.usage
         /\ CASE eff.next = "break" ->
                   /\ pc' = "done"
                   /\ ret' = Returned(total', finalUsage', "nil")
              [] eff.next = "continue" ->
                   /\ pc' = "top"
                   /\ ret' = ret
              [] eff.next = "check" ->
                   /\ pc' = IF o.err = "nil" THEN "top" ELSE "err"
                   /\ ret' = ret
  /\ UNCHANGED <<resolverVars, requestVars, mainVars, dec, ctxDone, complete>>

\* The if err != nil block after the line.
HandleErr ==
  /\ pc = "err"
  /\ LET a == onErrOf(dec, readErr, ctxDone) IN
       CASE a = "return ctx" ->
              /\ pc' = "done"
              /\ ret' = Returned(total, finalUsage, "ctx")
         [] a = "break" ->
              /\ pc' = "done"
              /\ ret' = Returned(total, finalUsage, "nil")
         [] a = "continue" ->
              /\ pc' = "top"
              /\ ret' = ret
         [] a = "return err" ->
              /\ pc' = "done"
              /\ ret' = Returned(total, finalUsage, readErr)
  /\ UNCHANGED <<resolverVars, requestVars, mainVars, dec, ctxDone, got, deltas, total, finalUsage, readErr,
               complete>>

\* The caller's context is cancelled or its deadline passes.
Cancel ==
  /\ pc \in {"top", "read", "err"}
  /\ ~ctxDone
  /\ ctxDone' = TRUE
  /\ UNCHANGED <<resolverVars, requestVars, mainVars, dec, pc, got, deltas, total, finalUsage, readErr, ret,
               complete>>

\* The response body a non-streaming call gets when the server sends, as one
\* JSON object, what it has sent line by line: the texts joined field by
\* field (choices by index, output items in sequence), the flags and counts
\* of the last line.
MergeChoices(a, b) ==
  [i \in 1..(IF Len(a) > Len(b) THEN Len(a) ELSE Len(b)) |->
     (IF i <= Len(a) THEN a[i] ELSE <<>>) \o (IF i <= Len(b) THEN b[i] ELSE <<>>)]

MergeObj(a, b) ==
  Obj(a.response \o b.response, b.done, b.prompt_eval_count, b.eval_count,
      MergeChoices(a.choices, b.choices), a.output \o b.output,
      a.illTyped \cup b.illTyped)

\* The line carries a JSON object in the framing of the variant: a bare
\* line for Ollama, a "data: " line for the OpenAI endpoints.
Framed(d, l) == l.body = "json" /\ (l.data <=> d # "ollama")

RECURSIVE ServedObject(_, _)
ServedObject(d, reads) ==
  IF reads = <<>> THEN EmptyObj
  ELSE LET n == Len(reads)
           before == ServedObject(d, SubSeq(reads, 1, n - 1))
       IN IF Framed(d, reads[n].line) THEN MergeObj(before, reads[n].line.obj)
          ELSE before

\* ollamaProvider.Complete from the decoded response on.
ollamaComplete(o) ==
  IF o.illTyped \cap {"response", "done", "prompt_eval_count", "eval_count"} # {}
  THEN Returned(<<>>, ZeroUsage, "decode")
  ELSE Returned(o.response,
                Usage(o.prompt_eval_count, o.eval_count,
                      o.prompt_eval_count + o.eval_count),
                "nil")

\* openAIProvider.Complete, chat completions path, from the decoded response on.
chatComplete(o) ==
  IF "choices" \in o.illTyped THEN Returned(<<>>, ZeroUsage, "decode")
  ELSE IF Len(o.choices) = 0
  THEN Returned(<<>>, ZeroUsage, "openai: no choices returned")
  ELSE Returned(o.choices[1], ZeroUsage, "nil")

\* openAIProvider.Complete, responses path, from the decoded response on.
responsesComplete(o) ==
  IF "output" \in o.illTyped THEN Returned(<<>>, ZeroUsage, "decode")
  ELSE Returned(Concat(NonEmpty(Concat(o.output))), ZeroUsage, "nil")

completeOf(d, o) ==
  CASE d = "ollama" -> ollamaComplete(o)
    [] d = "chat" -> chatComplete(o)
    [] d = "responses" -> responsesComplete(o)

\* The non-streaming call of the same backend, answered with the same server
\* output as the finished stream, in one object.
Complete ==
  /\ pc = "done"
  /\ ~complete.returned
  /\ complete' = completeOf(dec, ServedObject(dec, got))
  /\ UNCHANGED <<resolverVars, requestVars, mainVars, dec, pc, ctxDone, got, deltas, total, finalUsage,
                 readErr, ret>>

NextStream == LoopHead \/ ReadLine \/ HandleErr \/ Cancel \/ Complete

SpecStream == InitStream /\ [][NextStream]_vars

\* The Stream call as a running goroutine: the for loop is sequential code, so
\* whichever of its steps is enabled is eventually taken.  Nothing obliges the
\* caller to cancel the context.
SpecStreamLive ==
  /\ InitStream
  /\ [][NextStream]_vars
  /\ WF_vars(LoopHead)
  /\ WF_vars(ReadLine)
  /\ WF_vars(HandleErr)

(***************************************************************************)
(* The requests of Complete and Stream                                     *)
(***************************************************************************)
InitRequest ==
  /\ backend \in Backends
  /\ args \in { CompletionArgs(m, p, d, n, t, tp) :
                  m \in RequestModels, p \in Prompts, d \in Datas,
                  n \in MaxTokenses, t \in Temperatures, tp \in TopPs }
  /\ completeReq = NoRequest
  /\ streamReq = NoRequest
  /\ ResolverIdle
  /\ StreamIdle
  /\ MainIdle

\* Complete marshals its body and sends the request.
SendComplete ==
  /\ pc = "idle"
  /\ backend # "none"
  /\ ~completeReq.sent
  /\ completeReq' = IF backend = "openai" THEN openAICompleteRequest(args)
                    ELSE ollamaCompleteRequest(args)
  /\ UNCHANGED <<resolverVars, streamVars, mainVars, backend, args, streamReq>>

\* Stream marshals its body and sends the request.
SendStream ==
  /\ pc = "idle"
  /\ backend # "none"
  /\ ~streamReq.sent
  /\ streamReq' = IF backend = "openai" THEN openAIStreamRequest(args)
                  ELSE ollamaStreamRequest(args)
  /\ UNCHANGED <<resolverVars, streamVars, mainVars, backend, args, completeReq>>

NextRequest == SendComplete \/ SendStream

SpecRequest == InitRequest /\ [][NextRequest]_vars

(***************************************************************************)
(* main: flags, configuration, resolution, arguments, backend, request     *)
(***************************************************************************)
InitMain ==
  /\ cmdline \in CmdLines
  /\ profile \in Profiles
  /\ env \in MainEnvs
  /\ flags = NoFlags
  /\ keyDisplay = NotRedacted
  /\ modelArg = <<>>
  /\ res = Unresolved
  /\ mainRes = MainUnresolved
  /\ built = NotBuilt
  /\ pc = "flags"
  /\ dec = "none"
  /\ ctxDone = FALSE
  /\ got = <<>>
  /\ deltas = <<>>
  /\ total = <<>>
  /\ finalUsage = ZeroUsage
  /\ readErr = "nil"
  /\ ret = NotReturned
  /\ complete = NotReturned
  /\ RequestIdle

ParseFlags ==
  /\ pc = "flags"
  /\ flags' = parseFlags(cmdline)
  /\ modelArg' = parseFlags(cmdline).modelArg
  /\ pc' = "config"
  /\ UNCHANGED <<env, res, mainRes, built, dec, ctxDone, got, deltas, total,
                 finalUsage, readErr, ret, complete, requestVars, cmdline, profile,
                 keyDisplay>>

\* cfg.Apply: the profile's values are exported as environment variables.
ApplyConfig ==
  /\ pc = "config"
  /\ env' = Apply(env, profile)
  /\ pc' = "resolve"
  /\ UNCHANGED <<modelArg, res, mainRes, built, dec, ctxDone, got, deltas, total,
                 finalUsage, readErr, ret, complete, requestVars, mainVars>>

\* resolver.ResolveProviderAndModel(flags.modelArg); an error ends the run.
ResolveTarget ==
  /\ pc = "resolve"
  /\ \E iter \in IterOrders(env) :
       /\ res' = ResolveProviderAndModel(env, flags.modelArg, iter)
       /\ pc' = IF res'.ok THEN "diag" ELSE "exit"
  /\ UNCHANGED <<env, modelArg, mainRes, built, dec, ctxDone, got, deltas, total,
                 finalUsage, readErr, ret, complete, requestVars, mainVars>>

\* The diagnostics of main, written with --verbose, and with --model unless
\* --json is given: the key is shown redacted.  A panic ends the process.
Diagnose ==
  /\ pc = "diag"
  /\ IF flags.verbose \/ ("model" \in cmdline.given /\ ~flags.jsonOut)
     THEN /\ keyDisplay' = redactKey(res.APIKey)
          /\ pc' = IF keyDisplay'.panic THEN "panic" ELSE "args"
     ELSE /\ keyDisplay' = keyDisplay
          /\ pc' = "args"
  /\ UNCHANGED <<resolverVars, dec, ctxDone, got, deltas, total, finalUsage,
                 readErr, ret, complete, requestVars, cmdline, flags, profile>>

\* The CompletionArgs literal of main.
BuildArgs ==
  /\ pc = "args"
  /\ args' = CompletionArgs(res.Model, flags.prompt, flags.data, flags.maxTokens,
                            flags.temperature, flags.topP)
  /\ pc' = "build"
  /\ UNCHANGED <<resolverVars, dec, ctxDone, got, deltas, total, finalUsage,
                 readErr, ret, complete, backend, completeReq, streamReq, mainVars>>

\* provider.BuildProvider(res); an error ends the run.
BuildBackend ==
  /\ pc = "build"
  /\ built' = BuildProvider(res)
  /\ backend' = IF built'.ok THEN "openai" ELSE "none"
  /\ pc' = IF built'.ok THEN "idle" ELSE "exit"
  /\ UNCHANGED <<env, modelArg, res, mainRes, dec, ctxDone, got, deltas, total,
                 finalUsage, readErr, ret, complete, args, completeReq, streamReq,
                 mainVars>>

NextMain ==
  \/ ParseFlags
  \/ ApplyConfig
  \/ ResolveTarget
  \/ Diagnose
  \/ BuildArgs
  \/ BuildBackend
  \/ SendComplete
  \/ SendStream

SpecMain == InitMain /\ [][NextMain]_vars

(***************************************************************************)
(* Properties of the resolver                                              *)
(***************************************************************************)
\* The model argument is a "$"-reference to a catalog credential variable.
RefersToCredVar(arg) ==
  HasPrefix(arg, <<"$">>) /\ TrimPrefix(arg, <<"$">>) \in CredVars

\* Resolution in every environment that differs from env only in the
\* catalog credential variables returns what it returned in env.
SameForAllCreds ==
  \A c \in CredEnvs :
    \A iter \in IterOrders(WithCreds(env, c)) :
      ResolveProviderAndModel(WithCreds(env, c), modelArg, iter) = res

UnifiedCredentialUsed ==
  res.ok => /\ res.APIKey = Getenv(env, NURO_API_KEY)
            /\ res.KeySource = NURO_API_KEY

\* C1 as stated: with NURO_API_KEY non-empty, for any model argument, the
\* resolution is the same whatever the catalog credential variables hold,
\* and a successful one carries NURO_API_KEY's value and names it as source.
C1_AnyModelArgument ==
  (res # Unresolved /\ Getenv(env, NURO_API_KEY) # <<>>)
    => (SameForAllCreds /\ UnifiedCredentialUsed)

\* C1, amended: with NURO_API_KEY non-empty and a model argument that is not
\* a "$"-reference to a catalog credential variable, the resolution is the
\* same whatever the catalog credential variables hold; every successful
\* resolution (any model argument) has credential = NURO_API_KEY's value and
\* credential source = "NURO_API_KEY".
C1_UnifiedKeyIgnoresProviderKeys ==
  (res # Unresolved /\ Getenv(env, NURO_API_KEY) # <<>>)
    => /\ ~RefersToCredVar(modelArg) => SameForAllCreds
       /\ UnifiedCredentialUsed

\* C1 witness: unified mode resolved while the credential of the provider
\* the model hints at is set as well.
C1_Witness ==
  /\ res.ok
  /\ Getenv(env, NURO_API_KEY) # <<>>
  /\ Getenv(env, ANTHROPIC_API_KEY) # <<>>
  /\ Getenv(env, NURO_PROVIDER) = <<>>
  /\ modelArg = m_Claude_3
  /\ res.ProviderName = p_anthropic
  /\ res.APIKey = Getenv(env, NURO_API_KEY)

\* The model id that resolution works with: the argument, or the value of
\* the variable a "$"-argument names.
EffectiveModel ==
  IF HasPrefix(modelArg, <<"$">>)
  THEN Getenv(env, TrimPrefix(modelArg, <<"$">>))
  ELSE modelArg

AutoDiscovery ==
  /\ Getenv(env, NURO_API_KEY) = <<>>
  /\ \E v \in CredVars : Getenv(env, v) # <<>>

\* The hinted provider with its own credential, or else an error that names
\* the hinted provider's credential variable and no target at all.
HintedOrNamedError(r) ==
  LET p == inferProviderFromModel(EffectiveModel) IN
    IF Getenv(env, providerEnv[p]) # <<>>
    THEN /\ r.ok
         /\ r.ProviderName = p
         /\ r.APIKey = Getenv(env, providerEnv[p])
    ELSE /\ ~r.ok
         /\ r.ProviderName = <<>>
         /\ Len(r.err) = 4
         /\ r.err[4] = providerEnv[p]

\* C2: in auto-discovery, with an effective model that matches a prefix
\* hint, the result is the hinted provider with its credential exactly when
\* that provider's credential variable is non-empty; otherwise it is an
\* error naming that variable, never a target for another provider.  Both
\* resolvers (package resolver and package main) are covered.
C2_HintedProviderOrNamedError ==
  (AutoDiscovery /\ inferProviderFromModel(EffectiveModel) # <<>>)
    => /\ res # Unresolved => HintedOrNamedError(res)
       /\ mainRes # MainUnresolved => HintedOrNamedError(mainRes)

\* C2 witness: the hint re-routes away from openai, whose key is set too.
C2_Witness ==
  /\ AutoDiscovery
  /\ Getenv(env, OPENAI_API_KEY) # <<>>
  /\ modelArg = m_mixtral_8x7b
  /\ res.ok
  /\ res.ProviderName = p_mistral
  /\ res.APIKey = Getenv(env, MISTRAL_API_KEY)
  /\ mainRes.ok
  /\ mainRes.ProviderName = p_mistral

(***************************************************************************)
(* Properties of the stream decoders                                       *)
(***************************************************************************)
\* The text fragments a line carries for a decoder, by the wire format: the
\* response of an NDJSON object; the delta contents of the choices of a
\* "data: " chat chunk; the texts of the output contents of a "data: "
\* responses chunk, or the delta contents when the payload only decodes as
\* a chat chunk.  Empty texts are no fragments.
TextFragments(d, l) ==
  CASE d = "ollama" ->
         IF unmarshalOllama(l) THEN NonEmpty(<<l.obj.response>>) ELSE <<>>
    [] d = "chat" ->
         IF l.data /\ unmarshalChat(l) THEN NonEmpty(l.obj.choices) ELSE <<>>
    [] d = "responses" ->
         IF l.data /\ unmarshalResponses(l) THEN NonEmpty(Concat(l.obj.output))
         ELSE IF l.data /\ unmarshalChat(l) THEN NonEmpty(l.obj.choices)
         ELSE <<>>

\* The line is a terminal marker for the decoder.
IsTerminal(d, l) ==
  IF d = "ollama" THEN unmarshalOllama(l) /\ l.obj.done
  ELSE l.data /\ l.body = "done"

\* The line has text but does not parse for the decoder.
FailsToParse(d, l) ==
  CASE d = "ollama"    -> l.body \notin {"none", "blank"} /\ ~unmarshalOllama(l)
    [] d = "chat"      -> l.data /\ l.body # "done" /\ ~unmarshalChat(l)
    [] d = "responses" -> l.data /\ l.body # "done" /\ ~unmarshalResponses(l)
                            /\ ~unmarshalChat(l)

\* The fragments of the first n reads, in transport order.
FragmentsUpTo(n) ==
  Concat([i \in 1..n |-> TextFragments(dec, got[i].line)])

Streaming == dec \in Decoders

LastRead == got[Len(got)]

\* C3: in every decoder and for every transport, the sink has been called
\* once per non-empty text fragment of the lines read, in transport order,
\* and when Stream returns (success, cancellation or failure) the returned
\* text is the in-order concatenation of exactly the deltas delivered.
C3_DeltasInOrderAndTotal ==
  Streaming =>
    /\ deltas = FragmentsUpTo(Len(got))
    /\ \A i \in 1..Len(deltas) : deltas[i] # <<>>
    /\ ret.returned => ret.text = Concat(deltas)

\* C3 witness: a stream that returned after at least three sink calls from
\* at least two lines.
C3_Witness ==
  /\ Streaming
  /\ ret.returned
  /\ Len(deltas) >= 3
  /\ Len(got) >= 2
  /\ TextFragments(dec, got[1].line) # <<>>
  /\ ret.text = Concat(deltas)

\* A read failed with a transport error other than end-of-input while the
\* context was cancelled, after some delta had been emitted.
FailedReadAfterCancel(i) ==
  /\ got[i].ctx
  /\ got[i].err \in {"UnexpectedEOF", "other"}
  /\ FragmentsUpTo(i - 1) # <<>>

C5_CancelCheckedAtLoopHead ==
  [][(Streaming /\ pc = "top" /\ ctxDone)
       => (pc' = "done" /\ ret'.returned /\ ret'.err = "ctx"
           /\ got' = got /\ deltas' = deltas)]_vars

\* C6: in every decoder, when a read has returned an error (end-of-input
\* included) and the context is cancelled, Stream returns the cancellation
\* error, never a nil error.
C6_CancelBeatsEveryError ==
  [][(Streaming /\ pc = "err" /\ ctxDone)
       => (pc' = "done" /\ ret'.returned /\ ret'.err = "ctx")]_vars

\* C7: in every decoder, a read error that is neither end-of-input nor
\* accompanied by cancellation (unexpected EOF included) makes Stream return
\* that error with the partial text and the usage accumulated so far.
C7_TransportErrorReturned ==
  [][(Streaming /\ pc = "err" /\ readErr \in {"UnexpectedEOF", "other"}
        /\ ~ctxDone /\ ~ctxDone')
       => (pc' = "done"
           /\ ret' = Returned(Concat(deltas), finalUsage, readErr))]_vars

\* C8: with the context not cancelled, when the transport reaches a clean
\* end-of-input before any terminal marker, every decoder returns a nil
\* error and the concatenation of the deltas of all lines received, a last
\* line without trailing newline included.
C8_CleanEndOfInput ==
  (Streaming /\ ret.returned /\ ~ctxDone /\ got # <<>>
     /\ LastRead.err = "EOF"
     /\ \A i \in 1..Len(got) : ~IsTerminal(dec, got[i].line))
    => (ret.err = "nil" /\ ret.text = Concat(FragmentsUpTo(Len(got))))

\* C8 witness: the input ended on a line without its newline, and that line
\* carried text.
C8_Witness ==
  /\ Streaming
  /\ ret.returned
  /\ ~ctxDone
  /\ Len(got) >= 2
  /\ LastRead.err = "EOF"
  /\ TextFragments(dec, LastRead.line) # <<>>
  /\ TextFragments(dec, got[1].line) # <<>>
  /\ ret.err = "nil"

\* C9: reading a line that fails to parse emits no delta, raises no error
\* and does not stop the stream: deltas, total and usage are unchanged,
\* nothing is returned, and the loop goes on as it does after a read that
\* delivered no line with the same read error (back to the loop head when
\* there is none, to the error handling otherwise).
C9_UnparsableLineSkipped ==
  [][(Streaming /\ pc = "read" /\ pc' # "read" /\ Len(got') = Len(got) + 1
        /\ FailsToParse(dec, got'[Len(got')].line))
       => (/\ deltas' = deltas
           /\ total' = total
           /\ finalUsage' = finalUsage
           /\ ret' = ret
           /\ pc' = IF got'[Len(got')].err = "nil" THEN "top" ELSE "err"
           /\ readErr' = got'[Len(got')].err)]_vars

\* C9 witness: a stream that read an unparsable line, went on to deliver a
\* delta from a later line and ended without error.
C9_Witness ==
  /\ Streaming
  /\ ret.returned
  /\ ret.err = "nil"
  /\ \E i, j \in 1..Len(got) :
       /\ i < j
       /\ FailsToParse(dec, got[i].line)
       /\ TextFragments(dec, got[j].line) # <<>>

DoneAt(i) == unmarshalOllama(got[i].line) /\ got[i].line.obj.done

\* C10: the Ollama decoder stops at the first decoded object whose done flag
\* is true: no line is read after it, its own response text is emitted, and
\* the returned usage is (prompt_eval_count, eval_count, their sum) of that
\* object; when no done:true object was read the returned usage is zero.
C10_OllamaStopsAtDone ==
  (dec = "ollama") =>
    /\ \A i \in 1..Len(got) : DoneAt(i) => (i = Len(got) /\ ret.returned)
    /\ ret.returned =>
         IF got # <<>> /\ DoneAt(Len(got))
         THEN /\ deltas = FragmentsUpTo(Len(got))
              /\ ret.err = "nil"
              /\ ret.usage =
                   Usage(LastRead.line.obj.prompt_eval_count,
                         LastRead.line.obj.eval_count,
                         LastRead.line.obj.prompt_eval_count
                           + LastRead.line.obj.eval_count)
         ELSE ret.usage = ZeroUsage

\* C10 witness: {"response":"Hi","done":false} then the done:true object
\* with eval_count 2 and prompt_eval_count 3.
C10_Witness ==
  /\ dec = "ollama"
  /\ ret.returned
  /\ Len(got) = 2
  /\ got[1].line = Line(FALSE, "json", O_a)
  /\ got[2].line = Line(FALSE, "json", O_done)
  /\ deltas = <<t_a, t_b>>
  /\ ret.text = t_a \o t_b
  /\ ret.usage = Usage(3, 2, 5)

\* A ReadLine step that took a new read from the transport.
NewRead == pc = "read" /\ pc' # "read" /\ Len(got') = Len(got) + 1

\* C27: every Stream call eventually returns, in all three decoders, whatever
\* the transport's reads return (a line, end-of-input or an error), whether or
\* not the context is ever cancelled.
C27_StreamReturns == <>(ret.returned)

\* The payload of the line is a chat-delta chunk and nothing else: a
\* well-typed JSON object with choices and without an output array.
ChatDeltaShape(l) ==
  /\ l.data
  /\ l.body = "json"
  /\ l.obj.illTyped = {}
  /\ l.obj.output = <<>>
  /\ l.obj.choices # <<>>

\* C28: in the responses streaming path, a "data: " payload in chat-delta
\* shape has the non-empty delta contents of its choices delivered to the
\* sink and appended to the total, and the texts of one payload are emitted
\* by one of the two decodes only, never by both.
C28_ChatDeltaFallback ==
  [][(dec = "responses" /\ NewRead) =>
       LET l == got'[Len(got')].line IN
         /\ ChatDeltaShape(l)
              => /\ deltas' = deltas \o NonEmpty(l.obj.choices)
                 /\ total' = total \o Concat(NonEmpty(l.obj.choices))
         /\ deltas' \in {deltas,
                         deltas \o NonEmpty(Concat(l.obj.output)),
                         deltas \o NonEmpty(l.obj.choices)}
    ]_vars

\* C11: in both OpenAI SSE decoders, a line that does not start with
\* "data: " (a blank line included) produces no delta and no error and the
\* loop goes on; the payload [DONE] ends the stream with a nil error and the
\* text so far; and no line is read, so no delta emitted, after [DONE].
C11_SSEFraming ==
  [][(dec \in {"chat", "responses"}) =>
       /\ (NewRead /\ ~got'[Len(got')].line.data)
            => /\ deltas' = deltas
               /\ total' = total
               /\ ret' = ret
               /\ pc' = IF got'[Len(got')].err = "nil" THEN "top" ELSE "err"
       /\ (NewRead /\ got'[Len(got')].line = DoneLine)
            => /\ deltas' = deltas
               /\ pc' = "done"
               /\ ret' = Returned(Concat(deltas), ZeroUsage, "nil")
       /\ \A i \in 1..Len(got') :
            got'[i].line = DoneLine => (i = Len(got') /\ ret'.returned)
    ]_vars

\* C11 witness: a line without the prefix, then a data line with text, then
\* data: [DONE].
C11_Witness ==
  /\ dec \in {"chat", "responses"}
  /\ ret.returned
  /\ ret.err = "nil"
  /\ Len(got) = 3
  /\ ~got[1].line.data
  /\ got[1].line.body = "json"
  /\ TextFragments(dec, got[2].line) # <<>>
  /\ got[3].line = DoneLine
  /\ deltas = TextFragments(dec, got[2].line)

\* The stream was served well-formed output only and ended without an error:
\* every line read was empty, blank, the end marker of the framing, or a
\* well-typed JSON object in the framing of the variant.
WellFormedOutput ==
  /\ ret.returned
  /\ ret.err = "nil"
  /\ \A i \in 1..Len(got) :
       LET l == got[i].line IN
         \/ l \in {NoLine, BlankLine}
         \/ dec # "ollama" /\ l = DoneLine
         \/ Framed(dec, l) /\ l.obj.illTyped = {}

\* C12: for each backend variant, when Stream and Complete are driven by
\* the same server output, split into lines or as one object, the text
\* Stream returns (the concatenation of the deltas) equals the text Complete
\* returns.
C12_StreamEqualsComplete ==
  (WellFormedOutput /\ complete.returned)
    => /\ ret.text = Concat(deltas)
       /\ ret.text = complete.text

\* The resolver has run in unified mode: NURO_API_KEY is set and the model
\* argument is not a "$"-reference to an empty variable (which fails before
\* any mode is chosen).
UnifiedMode ==
  /\ res # Unresolved
  /\ Getenv(env, NURO_API_KEY) # <<>>
  /\ ~(HasPrefix(modelArg, <<"$">>) /\ EffectiveModel = <<>>)

\* The model id unified mode works with: the effective argument, else
\* NURO_MODEL.
UnifiedModel ==
  IF EffectiveModel # <<>> THEN EffectiveModel ELSE Getenv(env, NURO_MODEL)

MatchingHints(model) ==
  {i \in 1..Len(modelHints) : HasPrefix(ToLower(model), modelHints[i].prefix)}

\* C14: in unified mode the returned provider is NURO_PROVIDER lower-cased
\* whenever that variable is non-empty, whatever the model name implies;
\* otherwise the provider of the first prefix hint that the effective model
\* (argument, else NURO_MODEL) matches; otherwise openai.
C14_UnifiedProvider ==
  (UnifiedMode /\ res.ok) =>
    IF Getenv(env, NURO_PROVIDER) # <<>>
    THEN res.ProviderName = ToLower(Getenv(env, NURO_PROVIDER))
    ELSE IF MatchingHints(UnifiedModel) # {}
    THEN \E i \in MatchingHints(UnifiedModel) :
           /\ \A j \in MatchingHints(UnifiedModel) : i <= j
           /\ res.ProviderName = modelHints[i].provider
    ELSE res.ProviderName = p_openai

\* C14 witness: NURO_PROVIDER names ollama (in mixed case) while the model
\* name hints at anthropic; the target's provider is ollama.
C14_Witness ==
  /\ UnifiedMode
  /\ res.ok
  /\ Getenv(env, NURO_PROVIDER) = <<"O", "l", "l", "a", "m", "a">>
  /\ inferProviderFromModel(UnifiedModel) = p_anthropic
  /\ res.ProviderName = p_ollama

\* The base-URL variable that belongs to a provider; OPENAI_BASE_URL, which
\* belongs to openai, is the only one the resolver knows.
BaseURLVarOf(prov) == IF prov = p_openai THEN OPENAI_BASE_URL ELSE <<>>

\* C15: in unified mode the returned base URL is NURO_BASE_URL when that is
\* non-empty; otherwise the value of the base-URL variable of the resolved
\* provider, if it has one; the base-URL variable of another provider is
\* never used.
C15_UnifiedBaseURL ==
  (UnifiedMode /\ res.ok) =>
    IF Getenv(env, NURO_BASE_URL) # <<>>
    THEN res.BaseURL = Getenv(env, NURO_BASE_URL)
    ELSE IF BaseURLVarOf(res.ProviderName) # <<>>
    THEN res.BaseURL = Getenv(env, BaseURLVarOf(res.ProviderName))
    ELSE res.BaseURL = <<>>

\* The providers whose credential variable is set.
Credentialed == {q \in DOMAIN providerEnv : Getenv(env, providerEnv[q]) # <<>>}

\* C16: in auto-discovery with no model argument the returned provider is
\* openai whenever OPENAI_API_KEY is non-empty, otherwise the alphabetically
\* smallest provider whose credential variable is non-empty; the target has
\* that provider's credential and its hard-coded default model; and the
\* result is the same for every iteration order of the catalog map.
C16_AutoDiscoveryChoice ==
  (res # Unresolved /\ AutoDiscovery /\ modelArg = <<>>) =>
    /\ res.ok
    /\ res.ProviderName \in Credentialed
    /\ IF Getenv(env, OPENAI_API_KEY) # <<>>
       THEN res.ProviderName = p_openai
       ELSE \A q \in Credentialed \ {res.ProviderName} :
              LessStr(res.ProviderName, q)
    /\ res.APIKey = Getenv(env, providerEnv[res.ProviderName])
    /\ res.Model = defaultModelFor(res.ProviderName)
    /\ \A iter \in IterOrders(env) :
         ResolveProviderAndModel(env, modelArg, iter) = res

\* C16 witness: two credentials, neither of them OpenAI's, and no model
\* argument; a target was returned.
C16_Witness ==
  /\ res # Unresolved
  /\ AutoDiscovery
  /\ modelArg = <<>>
  /\ Cardinality(Credentialed) >= 2
  /\ p_openai \notin Credentialed
  /\ res.ok

\* C17: when the model argument starts with "$", the effective model is the
\* value of the environment variable named by the rest of the argument; if
\* that variable is unset or empty, resolution returns no target and an
\* error naming the variable, whatever credentials are set; a model argument
\* without the sigil is used verbatim.
C17_ModelIndirection ==
  (res # Unresolved /\ modelArg # <<>>) =>
    IF modelArg[1] = "$"
    THEN LET ref == SubSeq(modelArg, 2, Len(modelArg)) IN
           IF Getenv(env, ref) = <<>>
           THEN /\ ~res.ok
                /\ res.ProviderName = <<>>
                /\ res.Model = <<>>
                /\ res.APIKey = <<>>
                /\ res.err = <<"model env '%s' is empty or unset", ref>>
           ELSE res.ok => res.Model = Getenv(env, ref)
    ELSE res.ok => res.Model = modelArg

\* C17 witness: the argument names a variable that is not set while the
\* unified credential and a provider credential both are; resolution failed.
C17_Witness ==
  /\ res # Unresolved
  /\ modelArg = <<"$">> \o UNSET_VAR
  /\ Getenv(env, NURO_API_KEY) # <<>>
  /\ Getenv(env, OPENAI_API_KEY) # <<>>
  /\ ~res.ok

\* The provider identifiers of the specification's enumeration.
KnownProviders ==
  {p_openai, p_ollama, p_anthropic, p_google, p_azureopenai, p_openrouter,
   p_groq, p_mistral, p_together, p_cohere}

\* C18: every target that ResolveProviderAndModel returns successfully, for
\* every environment and model argument, has a provider identifier in the
\* known set {openai, ollama, anthropic, google, azureopenai, openrouter,
\* groq, mistral, together, cohere}.
C18_ProviderIsKnown ==
  (res # Unresolved /\ res.ok) => res.ProviderName \in KnownProviders

\* C19: BuildProvider, given a resolution whose provider name is "ollama",
\* returns the Ollama-native backend (Name() = "ollama") and no error, so
\* that every target resolved with NURO_PROVIDER=ollama gets a backend; given
\* "openai" it returns the OpenAI backend.
C19_FactoryBuildsOllamaAndOpenAI ==
  built.returned =>
    /\ res.ProviderName = p_ollama => built = NewOllamaProvider
    /\ res.ProviderName = p_openai => built = NewOpenAIProvider

\* The three unified variables that only the NURO_API_KEY branch reads.
UnifiedOnlyVars == {NURO_MODEL, NURO_PROVIDER, NURO_BASE_URL}

\* The model argument is a "$"-reference to one of them.
RefersToUnifiedVar(arg) ==
  HasPrefix(arg, <<"$">>) /\ TrimPrefix(arg, <<"$">>) \in UnifiedOnlyVars

\* The values the three variables take together.
UnifiedSettings == { n[2] @@ n[3] @@ n[4] : n \in NuroEnvs }

\* The environment e with the three variables set as in u.
WithUnified(e, u) ==
  [v \in DOMAIN e |-> IF v \in DOMAIN u THEN u[v] ELSE e[v]]

\* Resolution in every environment that differs from env only in NURO_MODEL,
\* NURO_PROVIDER and NURO_BASE_URL returns what it returned in env.
SameForAllUnified ==
  \A u \in UnifiedSettings :
    \A iter \in IterOrders(WithUnified(env, u)) :
      ResolveProviderAndModel(WithUnified(env, u), modelArg, iter) = res

\* C29 as stated: with NURO_API_KEY empty or unset, for every model
\* argument, the resolution (success or error, provider, model, credential,
\* base URL) is the same whatever NURO_MODEL, NURO_PROVIDER and NURO_BASE_URL
\* hold.
C29_AnyModelArgument ==
  (res # Unresolved /\ Getenv(env, NURO_API_KEY) = <<>>) => SameForAllUnified

\* C29, amended: with NURO_API_KEY empty or unset and a model argument that
\* is not a "$"-reference to NURO_MODEL, NURO_PROVIDER or NURO_BASE_URL, the
\* resolution is the same whatever these three variables hold.
C29_AutoDiscoveryIgnoresUnifiedVars ==
  (res # Unresolved /\ Getenv(env, NURO_API_KEY) = <<>>
     /\ ~RefersToUnifiedVar(modelArg))
    => SameForAllUnified

\* C29 witness: auto-discovery succeeded without a model argument while all
\* three variables were set, and returned the provider's default model and
\* neither NURO_MODEL nor NURO_BASE_URL.
C29_Witness ==
  /\ res.ok
  /\ Getenv(env, NURO_API_KEY) = <<>>
  /\ modelArg = <<>>
  /\ \A v \in UnifiedOnlyVars : Getenv(env, v) # <<>>
  /\ res.ProviderName # ToLower(Getenv(env, NURO_PROVIDER))
  /\ res.Model = defaultModelFor(res.ProviderName)
  /\ res.Model # Getenv(env, NURO_MODEL)
  /\ res.BaseURL # Getenv(env, NURO_BASE_URL)

\* C26: with the native Ollama configuration (NURO_API_KEY set,
\* NURO_PROVIDER naming ollama) and neither a model argument nor NURO_MODEL,
\* resolution succeeds with provider ollama and the default model
\* llama3.1:8b.
C26_NativeOllamaDefaultModel ==
  (/\ res # Unresolved
   /\ Getenv(env, NURO_API_KEY) # <<>>
   /\ ToLower(Getenv(env, NURO_PROVIDER)) = p_ollama
   /\ modelArg = <<>>
   /\ Getenv(env, NURO_MODEL) = <<>>)
    => /\ res.ok
       /\ res.ProviderName = p_ollama
       /\ res.Model = m_llama3_1_8b

(***************************************************************************)
(* Properties of the requests                                              *)
(***************************************************************************)
\* The model id, trimmed and lower-cased, starts with gpt-5.
Gpt5Family(model) ==
  LET m == TrimSpace(ToLower(model))
  IN  Len(m) >= 5 /\ SubSeq(m, 1, 5) = <<"g", "p", "t", "-", "5">>

NoSampling(req) ==
  req.sent => ("temperature" \notin DOMAIN req.body /\ "top_p" \notin DOMAIN req.body)

\* C20: for every model id whose trimmed, lower-cased form starts with
\* gpt-5, the requests of Complete and of Stream of the OpenAI provider go
\* to the responses endpoint without temperature and without top_p in the
\* body, whatever values the caller supplied; and for every model id
\* Complete and Stream choose the same endpoint.
C20_NoSamplingForGpt5 ==
  backend = "openai" =>
    /\ Gpt5Family(args.Model) =>
         /\ NoSampling(completeReq)
         /\ NoSampling(streamReq)
         /\ completeReq.sent => completeReq.endpoint = "/responses"
         /\ streamReq.sent => streamReq.endpoint = "/responses"
    /\ (completeReq.sent /\ streamReq.sent)
         => completeReq.endpoint = streamReq.endpoint

\* C20 witness: a gpt-5 model id in upper case with white space around it,
\* non-zero temperature and top-p, and both requests sent.
C20_Witness ==
  /\ backend = "openai"
  /\ Gpt5Family(args.Model)
  /\ args.Model # TrimSpace(ToLower(args.Model))
  /\ args.Temperature # 0
  /\ args.TopP # 0
  /\ completeReq.sent
  /\ streamReq.sent
  /\ streamReq.body["stream"]

\* The request goes to a variant and model that accepts sampling parameters:
\* Ollama, OpenAI chat, or OpenAI responses outside the gpt-5 family.
AcceptsSampling ==
  \/ backend = "ollama"
  \/ backend = "openai" /\ ~Gpt5Family(args.Model)

\* The JSON object of the body that holds the sampling parameters.
SamplingObject(req) ==
  IF backend = "ollama" THEN req.body["options"] ELSE req.body

\* The body carries the caller's temperature and top-p unchanged.
CarriesSampling(req) ==
  req.sent =>
    /\ "temperature" \in DOMAIN SamplingObject(req)
    /\ SamplingObject(req)["temperature"] = args.Temperature
    /\ "top_p" \in DOMAIN SamplingObject(req)
    /\ SamplingObject(req)["top_p"] = args.TopP

\* C21: every request to a variant and model that accepts sampling
\* parameters carries the caller's temperature and top-p unchanged in its
\* body, for every value of their ranges, 0 included: none is dropped,
\* defaulted or clamped.
C21_SamplingPassedThrough ==
  AcceptsSampling => (CarriesSampling(completeReq) /\ CarriesSampling(streamReq))

\* The user content of an OpenAI request: the input string of the responses
\* body, the content of the single message of the chat body.
UserContent(req) ==
  IF "input" \in DOMAIN req.body THEN req.body["input"]
  ELSE req.body["messages"][1].content

\* A character is white space if it is a blank, a tab, a newline or a
\* carriage return; Trimmed(s, t) says t is s without its leading and
\* trailing white space.
Trimmed(s, t) ==
  \E i \in 0..Len(s), j \in 0..Len(s) :
    /\ i + j <= Len(s)
    /\ t = SubSeq(s, i + 1, Len(s) - j)
    /\ \A k \in (1..i) \cup ((Len(s) - j + 1)..Len(s)) :
         s[k] \in {" ", "\t", "\n", "\r"}
    /\ t # <<>> => (t[1] \notin {" ", "\t", "\n", "\r"}
                    /\ t[Len(t)] \notin {" ", "\t", "\n", "\r"})

\* The prose join of an OpenAI request, but for the data-only case.
ProseJoin(req) ==
  \E p \in {TrimSpace(args.Prompt)}, d \in {TrimSpace(args.Data)} :
    /\ Trimmed(args.Prompt, p)
    /\ Trimmed(args.Data, d)
    /\ (p # <<>> /\ d # <<>>)
         => UserContent(req) = p \o <<" ", "i", "n", " ", "t", "h", "e", " ", "f", "o", "l", "l", "o", "w", "i", "n", "g", " ", "d", "a", "t", "a", ":", " ">> \o d
    /\ (p # <<>> /\ d = <<>>) => UserContent(req) = p
    /\ (p = <<>> /\ d = <<>>) => UserContent(req) = <<>>

\* C22: buildUserContent trims prompt and data independently and returns
\* "{prompt} in the following data: {data}" when both are non-empty, the
\* trimmed prompt alone when only the prompt is non-empty, the empty string
\* when both are empty; white space only counts as empty; and two calls on
\* the same inputs (Complete's and Stream's) return the same string.
C22_ProseJoin ==
  backend = "openai" =>
    /\ completeReq.sent => ProseJoin(completeReq)
    /\ streamReq.sent => ProseJoin(streamReq)
    /\ (completeReq.sent /\ streamReq.sent)
         => UserContent(completeReq) = UserContent(streamReq)

\* C22 witness: prompt and data both with white space around their text,
\* both requests sent with the joined content.
C22_Witness ==
  /\ backend = "openai"
  /\ completeReq.sent
  /\ streamReq.sent
  /\ args.Prompt # TrimSpace(args.Prompt)
  /\ args.Data # TrimSpace(args.Data)
  /\ TrimSpace(args.Prompt) # <<>>
  /\ TrimSpace(args.Data) # <<>>
  /\ Len(UserContent(streamReq))
       = Len(TrimSpace(args.Prompt)) + 24 + Len(TrimSpace(args.Data))

\* The prompt is empty after trimming and the data is not.
DataOnly == TrimSpace(args.Prompt) = <<>> /\ TrimSpace(args.Data) # <<>>

\* C23 as stated: given a prompt that is empty after trimming and non-empty
\* data, the prose join returns "Data:\n```\n" + data + "\n```\n", with a
\* trailing newline.
C23_DataOnlyTrailingNewline ==
  (backend = "openai" /\ DataOnly /\ completeReq.sent)
    => UserContent(completeReq)
         = <<"D", "a", "t", "a", ":", "\n", Backquote, Backquote, Backquote, "\n">> \o TrimSpace(args.Data) \o <<"\n", Backquote, Backquote, Backquote>> \o <<"\n">>

\* C23 amended: given a prompt that is empty after trimming and non-empty
\* data, the prose join returns "Data:\n```\n" + trimmed data + "\n```",
\* ending with the closing fence and no newline after it.
C23_DataOnlyFenced ==
  (backend = "openai" /\ DataOnly)
    => /\ completeReq.sent
         => UserContent(completeReq) = <<"D", "a", "t", "a", ":", "\n", Backquote, Backquote, Backquote, "\n">> \o TrimSpace(args.Data) \o <<"\n", Backquote, Backquote, Backquote>>
       /\ streamReq.sent
         => UserContent(streamReq) = <<"D", "a", "t", "a", ":", "\n", Backquote, Backquote, Backquote, "\n">> \o TrimSpace(args.Data) \o <<"\n", Backquote, Backquote, Backquote>>

\* C23 witness: a white-space prompt and data with text, the request sent,
\* its content ending with the closing fence.
C23_Witness ==
  /\ backend = "openai"
  /\ DataOnly
  /\ args.Prompt # <<>>
  /\ completeReq.sent
  /\ UserContent(completeReq)[Len(UserContent(completeReq))] = Backquote

\* The prompt of an Ollama request.
OllamaPrompt(req) == req.body["prompt"]

LabeledJoin(req) ==
  \E p \in {TrimSpace(args.Prompt)}, d \in {TrimSpace(args.Data)} :
    /\ Trimmed(args.Prompt, p)
    /\ Trimmed(args.Data, d)
    /\ (p # <<>> /\ d # <<>>)
         => OllamaPrompt(req) = p \o <<"\n", "\n", "D", "a", "t", "a", ":", "\n", Backquote, Backquote, Backquote, "\n">> \o d \o <<"\n", Backquote, Backquote, Backquote>>
    /\ (p # <<>> /\ d = <<>>) => OllamaPrompt(req) = p
    /\ (p = <<>> /\ d # <<>>)
         => OllamaPrompt(req) = <<"H", "e", "r", "e", " ", "i", "s", " ", "s", "o", "m", "e", " ", "d", "a", "t", "a", " ", "t", "o", " ", "a", "n", "a", "l", "y", "z", "e", ":", "\n", "\n", Backquote, Backquote, Backquote, "\n">> \o d \o <<"\n", Backquote, Backquote, Backquote>>
    /\ (p = <<>> /\ d = <<>>) => OllamaPrompt(req) = <<>>

\* C24: buildOllamaPrompt trims prompt and data independently and returns
\* prompt + "\n\nData:\n```\n" + data + "\n```" when both are non-empty, the
\* trimmed prompt alone when only the prompt is non-empty, "Here is some
\* data to analyze:\n\n```\n" + data + "\n```" when only the data is
\* non-empty, and the empty string when both are empty.
C24_LabeledJoin ==
  backend = "ollama" =>
    /\ completeReq.sent => LabeledJoin(completeReq)
    /\ streamReq.sent => LabeledJoin(streamReq)

\* C24 witness: an Ollama request whose prompt and data both have text with
\* white space around it.
C24_Witness ==
  /\ backend = "ollama"
  /\ streamReq.sent
  /\ args.Prompt # TrimSpace(args.Prompt)
  /\ args.Data # TrimSpace(args.Data)
  /\ TrimSpace(args.Prompt) # <<>>
  /\ TrimSpace(args.Data) # <<>>
  /\ Len(OllamaPrompt(streamReq))
       = Len(TrimSpace(args.Prompt)) + 12 + Len(TrimSpace(args.Data)) + 4

(***************************************************************************)
(* Properties of main                                                      *)
(***************************************************************************)
\* main has built the CompletionArgs of the request.
ArgsBuilt == pc \in {"build", "idle"} \/ (pc = "exit" /\ built.returned)

\* C25: the precedence for max tokens, temperature and top-p is CLI flag,
\* then applied profile, then hard-coded default: a flag that is given sets
\* the request's value; when the flag is not given, the request uses the
\* value of the applied profile (exported as NURO_MAX_TOKENS,
\* NURO_TEMPERATURE, NURO_TOP_P) if the profile has one, and the flag's
\* default otherwise.
C25_FlagThenProfileThenDefault ==
  ArgsBuilt =>
    /\ args.MaxTokens =
         IF "max-tokens" \in cmdline.given THEN cmdline.maxTokens
         ELSE IF profile.MaxTokens > 0 THEN profile.MaxTokens
         ELSE 1024
    /\ args.Temperature =
         IF "temperature" \in cmdline.given THEN cmdline.temperature
         ELSE IF profile.Temperature > 0 THEN profile.Temperature
         ELSE 7
    /\ args.TopP =
         IF "top-p" \in cmdline.given THEN cmdline.topP
         ELSE IF profile.TopP > 0 THEN profile.TopP
         ELSE 10


\* C30: for every credential a successful resolution returns, one or two
\* characters long included, redactKey returns a string and main's
\* diagnostics complete without a run-time panic, so that the run goes on to
\* BuildProvider.
C30_DiagnosticsNeverPanic ==
  (res.ok /\ res.APIKey # <<>>)
    => /\ pc # "panic"
       /\ keyDisplay.called => ~keyDisplay.panic

====
